---- MODULE Spec2Model ----
(***************************************************************************)
(* Bundle lifecycle and rollback engine of the Electron updater:          *)
(* StorageManager (the manifest and its persisted copy), BundleManager    *)
(* (next/set/delete/rollback/...), and the readiness watchdog that drives *)
(* markBundleSuccessful and rollback.                                     *)
(***************************************************************************)
EXTENDS Integers, Sequences, FiniteSets, TLC

\* ------------------------------------------------------------------ bounds
\* Number of bundle ids the download path can ever hand out.
MaxBundles == 2

\* Length of the readiness window, in clock ticks.
TimeoutTicks == 2

\* How many file-system calls (writeFile, rm, readdir) may fail in one run.
MaxFaults == 1

\* How many device identifiers crypto.randomUUID() can hand out in one run.
MaxUuids == 3

\* How many times over a stored device identifier can be encrypted.
MaxLayers == 2

\* The last instant of the wall clock, which starts at 1 (Date.now() > 0).
MaxClock == 3

\* The longest list of delay conditions that setMultiDelay is given.
MaxConds == 2

\* The longest session key string.
MaxKeyLen == 3

\* The longest custom id a caller passes.
MaxIdLen == 2

\* How many distinct callbacks are registered.
MaxCallbacks == 3

\* ------------------------------------------------------------ identifiers
\* The reserved id of the bundle shipped with the application.
BUILTIN_BUNDLE_ID == 0

\* The JavaScript null of the optional id fields.
NoBundle == -1

BundleIds == 1..MaxBundles

AnyId == 0..MaxBundles

Status == {"pending", "downloading", "success", "error"}

VARIABLES
    mem,        \* StorageManager.data.manifest, the in-memory manifest
    disk,       \* the storage file: <<>> when absent, else <<manifest>>
    files,      \* ids that have a directory under the bundles directory
    usedIds,    \* how many bundle ids the download path has handed out
    faults,     \* how many file-system calls have failed so far
    config,     \* [autoDeleteFailed, autoDeletePrevious]
    phase,      \* process position: "starting" (before applyPendingUpdate) or "running"
    wd,         \* the readiness watchdog
    calls,      \* the asynchronous calls in flight, each at its suspension point
    store,      \* the storage document: the file, the loaded data, the device id
    delay,      \* DelayManager: conditions, clock, background and kill state
    crypto,     \* CryptoManager: the public key, a file, the last call's result
    emitter     \* UpdaterEventEmitter: the listeners, the last emit's deliveries

vars == <<mem, disk, files, usedIds, faults, config, phase, wd, calls, store, delay, crypto, emitter>>

\* --------------------------------------------------------- StorageManager
\* null where a custom id (a string of characters) or a channel is expected.
NoCustomId == <<"null">>

NoChannel == "null"

createDefaultManifest ==
    [ bundles |-> <<>>,
      currentBundleId |-> BUILTIN_BUNDLE_ID,
      nextBundleId |-> NoBundle,
      lastSuccessfulBundleId |-> NoBundle,
      failedUpdate |-> NoBundle,
      customId |-> NoCustomId,
      channel |-> NoChannel ]

\* What a call can read and write.
St == [mem |-> mem, disk |-> disk, files |-> files, faults |-> faults]

\* The outcomes a file-system call can still have.
IoOutcomes == IF faults < MaxFaults THEN BOOLEAN ELSE {TRUE}

failed(st) == [st EXCEPT !.faults = @ + 1]

loadStorage(d) == IF d = <<>> THEN createDefaultManifest ELSE d[1]

\* writeFile either writes the whole document or throws.
save(st, ioOk) == IF ioOk THEN [st EXCEPT !.disk = <<st.mem>>] ELSE failed(st)

hasBundle(st, id) == id \in DOMAIN st.mem.bundles

getBundle(st, id) == IF hasBundle(st, id) THEN st.mem.bundles[id] ELSE "null"

setBundle(st, id, status) ==
    [st EXCEPT !.mem.bundles =
        [b \in (DOMAIN st.mem.bundles) \cup {id} |->
            IF b = id THEN status ELSE st.mem.bundles[b]]]

storageDeleteBundle(st, id) ==
    [st EXCEPT !.mem.bundles =
        [b \in (DOMAIN st.mem.bundles) \ {id} |-> st.mem.bundles[b]]]

setCurrentBundleId(st, id) == [st EXCEPT !.mem.currentBundleId = id]

setNextBundleId(st, id) == [st EXCEPT !.mem.nextBundleId = id]

setLastSuccessfulBundleId(st, id) == [st EXCEPT !.mem.lastSuccessfulBundleId = id]

setFailedUpdate(st, id) == [st EXCEPT !.mem.failedUpdate = id]

\* rm -rf of the bundle directory; a failure is logged and swallowed.
deleteBundleFiles(st, id, rmOk) ==
    IF rmOk THEN [st EXCEPT !.files = @ \ {id}] ELSE failed(st)

bundleExists(st, id) == id \in st.files

\* Outcomes of DownloadManager.verifyBundleIntegrity: it re-checks the stored
\* files, so it cannot pass for a bundle whose directory is gone.
VerifyOutcomes(fs, id) == IF id \in fs THEN BOOLEAN ELSE {FALSE}

\* ---------------------------------------------------------- BundleManager
\* Every operation returns the state it leaves and how it ended:
\* err = "none" when it returned, otherwise the error it threw.
Ret(st, err) == [st |-> st, err |-> err]

IoErr(ioOk) == IF ioOk THEN "none" ELSE "io"

getBuiltinBundle == [id |-> BUILTIN_BUNDLE_ID, status |-> "success"]

\* list that ignores the raw option and never looks at the disk.
list_IgnoresDisk(st, raw) == {BUILTIN_BUNDLE_ID} \cup DOMAIN st.mem.bundles

\* The ids of the bundles list() returns: the builtin bundle first, then the
\* stored ones, all of them with raw, else those whose directory exists.
list(st, raw) ==
    {BUILTIN_BUNDLE_ID} \cup
        {b \in DOMAIN st.mem.bundles : raw \/ bundleExists(st, b)}

\* deleteBundle without the check against nextBundleId.
deleteBundle_NoNextGuard(st, id, rmOk, ioOk) ==
    IF id = BUILTIN_BUNDLE_ID THEN Ret(st, "protected")
    ELSE IF id = st.mem.currentBundleId THEN Ret(st, "protected")
    ELSE Ret(save(storageDeleteBundle(deleteBundleFiles(st, id, rmOk), id), ioOk),
             IoErr(ioOk))

\* deleteBundle without the check against the builtin id.
deleteBundle_NoBuiltinGuard(st, id, rmOk, ioOk) ==
    IF id = st.mem.currentBundleId THEN Ret(st, "protected")
    ELSE IF id = st.mem.nextBundleId THEN Ret(st, "protected")
    ELSE Ret(save(storageDeleteBundle(deleteBundleFiles(st, id, rmOk), id), ioOk),
             IoErr(ioOk))

deleteBundle(st, id, rmOk, ioOk) ==
    IF id = BUILTIN_BUNDLE_ID THEN Ret(st, "protected")
    ELSE IF id = st.mem.currentBundleId THEN Ret(st, "protected")
    ELSE IF id = st.mem.nextBundleId THEN Ret(st, "protected")
    ELSE Ret(save(storageDeleteBundle(deleteBundleFiles(st, id, rmOk), id), ioOk),
             IoErr(ioOk))

\* deleteBundle(...).catch(() => {}): the state it leaves, whatever it threw.
deleteBundleQuietly(st, id, rmOk, ioOk) == deleteBundle(st, id, rmOk, ioOk).st

\* next that queues the bundle before it verifies it.
next_QueuesBeforeVerify(st, id, valid, ioOk) ==
    IF ~hasBundle(st, id) THEN Ret(st, "notfound")
    ELSE IF getBundle(st, id) # "success" THEN Ret(st, "invalidstate")
    ELSE IF ~valid THEN Ret(setNextBundleId(st, id), "integrity")
    ELSE Ret(save(setNextBundleId(st, id), ioOk), IoErr(ioOk))

next(st, id, valid, ioOk) ==
    IF ~hasBundle(st, id) THEN Ret(st, "notfound")
    ELSE IF getBundle(st, id) # "success" THEN Ret(st, "invalidstate")
    ELSE IF ~valid THEN Ret(st, "integrity")
    ELSE Ret(save(setNextBundleId(st, id), ioOk), IoErr(ioOk))

\* set that leaves the queued bundle queued.
set_KeepsNext(st, id, valid, ioOk, autoDeletePrevious, rmOk, ioOk2) ==
    IF ~hasBundle(st, id) /\ id # BUILTIN_BUNDLE_ID THEN Ret(st, "notfound")
    ELSE IF id # BUILTIN_BUNDLE_ID /\ ~valid THEN Ret(st, "integrity")
    ELSE
        LET previousId == st.mem.currentBundleId
            s1 == setCurrentBundleId(st, id)
        IN  IF ~ioOk THEN Ret(failed(s1), "io")
            ELSE IF autoDeletePrevious /\ previousId # BUILTIN_BUNDLE_ID /\ previousId # id
                 THEN Ret(deleteBundleQuietly(save(s1, TRUE), previousId, rmOk, ioOk2), "none")
                 ELSE Ret(save(s1, TRUE), "none")

set(st, id, valid, ioOk, autoDeletePrevious, rmOk, ioOk2) ==
    IF ~hasBundle(st, id) /\ id # BUILTIN_BUNDLE_ID THEN Ret(st, "notfound")
    ELSE IF id # BUILTIN_BUNDLE_ID /\ ~valid THEN Ret(st, "integrity")
    ELSE
        LET previousId == st.mem.currentBundleId
            s1 == setNextBundleId(setCurrentBundleId(st, id), NoBundle)
        IN  IF ~ioOk THEN Ret(failed(s1), "io")
            ELSE IF autoDeletePrevious /\ previousId # BUILTIN_BUNDLE_ID /\ previousId # id
                 THEN Ret(deleteBundleQuietly(save(s1, TRUE), previousId, rmOk, ioOk2), "none")
                 ELSE Ret(save(s1, TRUE), "none")

\* setBundleError that does not look at the configuration.
setBundleError_NoPermissionCheck(st, id, allowManualBundleError, autoDeleteFailed, rmOk, ioOk1, ioOk) ==
    IF ~hasBundle(st, id) THEN Ret(st, "notfound")
    ELSE
        LET s1 == setBundle(st, id, "error")
            s2 == IF autoDeleteFailed THEN deleteBundleQuietly(s1, id, rmOk, ioOk1) ELSE s1
        IN  Ret(save(s2, ioOk), IoErr(ioOk))

setBundleError(st, id, allowManualBundleError, autoDeleteFailed, rmOk, ioOk1, ioOk) ==
    IF ~allowManualBundleError THEN Ret(st, "permission")
    ELSE IF ~hasBundle(st, id) THEN Ret(st, "notfound")
    ELSE
        LET s1 == setBundle(st, id, "error")
            s2 == IF autoDeleteFailed THEN deleteBundleQuietly(s1, id, rmOk, ioOk1) ELSE s1
        IN  Ret(save(s2, ioOk), IoErr(ioOk))

\* Returns the stored record and clears it; nothing is saved here.
getFailedUpdate(st) == Ret(setFailedUpdate(st, NoBundle), "none")

recordFailedUpdate(st, id, ioOk) == Ret(save(setFailedUpdate(st, id), ioOk), IoErr(ioOk))

reset(st, toLastSuccessful, ioOk) ==
    LET lastId == st.mem.lastSuccessfulBundleId
        targetId == IF toLastSuccessful
                    THEN (IF lastId # NoBundle THEN lastId ELSE BUILTIN_BUNDLE_ID)
                    ELSE BUILTIN_BUNDLE_ID
    IN  Ret(save(setNextBundleId(setCurrentBundleId(st, targetId), NoBundle), ioOk),
            IoErr(ioOk))

\* Result of applyPendingUpdate: also {applied, bundleId}.
ApplyRet(st, err, applied, bundleId) ==
    [st |-> st, err |-> err, applied |-> applied, bundleId |-> bundleId]

\* applyPendingUpdate that leaves nextBundleId queued after an integrity failure.
applyPendingUpdate_KeepsNext(st, valid, ioOk, autoDeletePrevious, rmOk, ioOk2) ==
    LET nextId == st.mem.nextBundleId
        currentId == st.mem.currentBundleId
    IN  IF nextId = NoBundle \/ nextId = currentId
        THEN ApplyRet(st, "none", FALSE, currentId)
        ELSE IF ~hasBundle(st, nextId)
        THEN ApplyRet(save(setNextBundleId(st, NoBundle), ioOk), IoErr(ioOk), FALSE, currentId)
        ELSE IF ~valid
        THEN ApplyRet(save(setBundle(st, nextId, "error"), ioOk), IoErr(ioOk), FALSE, currentId)
        ELSE
            LET s1 == setNextBundleId(setCurrentBundleId(st, nextId), NoBundle)
            IN  IF ~ioOk THEN ApplyRet(failed(s1), "io", FALSE, currentId)
                ELSE IF autoDeletePrevious /\ currentId # BUILTIN_BUNDLE_ID
                     THEN ApplyRet(deleteBundleQuietly(save(s1, TRUE), currentId, rmOk, ioOk2),
                                   "none", TRUE, nextId)
                     ELSE ApplyRet(save(s1, TRUE), "none", TRUE, nextId)

\* applyPendingUpdate that drops a bundle failing verification without marking it.
applyPendingUpdate_NoErrorMark(st, valid, ioOk, autoDeletePrevious, rmOk, ioOk2) ==
    LET nextId == st.mem.nextBundleId
        currentId == st.mem.currentBundleId
    IN  IF nextId = NoBundle \/ nextId = currentId
        THEN ApplyRet(st, "none", FALSE, currentId)
        ELSE IF ~hasBundle(st, nextId) \/ ~valid
        THEN ApplyRet(save(setNextBundleId(st, NoBundle), ioOk), IoErr(ioOk), FALSE, currentId)
        ELSE
            LET s1 == setNextBundleId(setCurrentBundleId(st, nextId), NoBundle)
            IN  IF ~ioOk THEN ApplyRet(failed(s1), "io", FALSE, currentId)
                ELSE IF autoDeletePrevious /\ currentId # BUILTIN_BUNDLE_ID
                     THEN ApplyRet(deleteBundleQuietly(save(s1, TRUE), currentId, rmOk, ioOk2),
                                   "none", TRUE, nextId)
                     ELSE ApplyRet(save(s1, TRUE), "none", TRUE, nextId)

applyPendingUpdate(st, valid, ioOk, autoDeletePrevious, rmOk, ioOk2) ==
    LET nextId == st.mem.nextBundleId
        currentId == st.mem.currentBundleId
    IN  IF nextId = NoBundle \/ nextId = currentId
        THEN ApplyRet(st, "none", FALSE, currentId)
        ELSE IF ~hasBundle(st, nextId)
        THEN ApplyRet(save(setNextBundleId(st, NoBundle), ioOk), IoErr(ioOk), FALSE, currentId)
        ELSE IF ~valid
        THEN ApplyRet(save(setNextBundleId(setBundle(st, nextId, "error"), NoBundle), ioOk),
                      IoErr(ioOk), FALSE, currentId)
        ELSE
            LET s1 == setNextBundleId(setCurrentBundleId(st, nextId), NoBundle)
            IN  IF ~ioOk THEN ApplyRet(failed(s1), "io", FALSE, currentId)
                ELSE IF autoDeletePrevious /\ currentId # BUILTIN_BUNDLE_ID
                     THEN ApplyRet(deleteBundleQuietly(save(s1, TRUE), currentId, rmOk, ioOk2),
                                   "none", TRUE, nextId)
                     ELSE ApplyRet(save(s1, TRUE), "none", TRUE, nextId)

\* markBundleSuccessful that also drops the queued bundle.
markBundleSuccessful_ClearsNext(st, ioOk) ==
    Ret(save(setNextBundleId(setLastSuccessfulBundleId(st, st.mem.currentBundleId), NoBundle),
             ioOk),
        IoErr(ioOk))

\* markBundleSuccessful that also sets the status of the current bundle.
markBundleSuccessful_SetsStatus(st, ioOk) ==
    LET currentId == st.mem.currentBundleId
        s1 == IF hasBundle(st, currentId) THEN setBundle(st, currentId, "success") ELSE st
    IN  Ret(save(setLastSuccessfulBundleId(s1, currentId), ioOk), IoErr(ioOk))

markBundleSuccessful(st, ioOk) ==
    Ret(save(setLastSuccessfulBundleId(st, st.mem.currentBundleId), ioOk), IoErr(ioOk))

\* rollback that marks the bundle but does not record the failed update.
rollback_NoFailedRecord(st, autoDeleteFailed, ioOk1, rmOk, ioOk2, ioOk) ==
    LET currentId == st.mem.currentBundleId
        lastSuccessfulId == st.mem.lastSuccessfulBundleId
        targetId == IF lastSuccessfulId # NoBundle THEN lastSuccessfulId ELSE BUILTIN_BUNDLE_ID
        s1 == IF hasBundle(st, currentId) THEN setBundle(st, currentId, "error") ELSE st
    IN  Ret(save(setNextBundleId(setCurrentBundleId(s1, targetId), NoBundle), ioOk),
            IoErr(ioOk))

rollback(st, autoDeleteFailed, ioOk1, rmOk, ioOk2, ioOk) ==
    LET currentId == st.mem.currentBundleId
        lastSuccessfulId == st.mem.lastSuccessfulBundleId
        targetId == IF lastSuccessfulId # NoBundle THEN lastSuccessfulId ELSE BUILTIN_BUNDLE_ID
        reset_(s) == Ret(save(setNextBundleId(setCurrentBundleId(s, targetId), NoBundle), ioOk),
                         IoErr(ioOk))
    IN  IF hasBundle(st, currentId)
        THEN LET rec == recordFailedUpdate(setBundle(st, currentId, "error"), currentId, ioOk1)
             IN  IF rec.err # "none" THEN rec
                 ELSE IF autoDeleteFailed
                      THEN reset_(deleteBundleQuietly(rec.st, currentId, rmOk, ioOk2))
                      ELSE reset_(rec.st)
        ELSE reset_(st)

\* The states rollback() is in when it resumes from its awaits before the
\* closing save: after the save of recordFailedUpdate, and after the
\* best-effort deleteBundle.  A process that ends there keeps the storage
\* file and the bundle directories of that state.
rollbackSuspended(st, autoDeleteFailed, ioOk1, rmOk, ioOk2) ==
    LET currentId == st.mem.currentBundleId
    IN  IF hasBundle(st, currentId)
        THEN LET rec == recordFailedUpdate(setBundle(st, currentId, "error"), currentId, ioOk1)
             IN  IF rec.err # "none" THEN <<>>
                 ELSE IF autoDeleteFailed
                      THEN <<rec.st, deleteBundleQuietly(rec.st, currentId, rmOk, ioOk2)>>
                      ELSE <<rec.st>>
        ELSE <<>>

\* The error bundles cleanup() visits, in the order of Object.values.
RECURSIVE cleanupLoop(_, _, _, _, _)
cleanupLoop(st, todo, i, rmOk, ioOk) ==
    IF i > MaxBundles THEN st
    ELSE IF i \in todo
         THEN cleanupLoop(deleteBundleQuietly(st, i, i \in rmOk, i \in ioOk), todo, i + 1, rmOk, ioOk)
         ELSE cleanupLoop(st, todo, i + 1, rmOk, ioOk)

\* readdir may throw (swallowed); each orphan directory is removed best-effort.
cleanupOrphanedBundles(st, readdirOk, rmOk) ==
    IF ~readdirOk THEN st
    ELSE [st EXCEPT !.files = {f \in @ : hasBundle(st, f) \/ f \notin rmOk}]

\* rmOk: the directories whose removal succeeds during this call; ioOk: the
\* visited bundles whose save succeeds. Each failing call is counted once.
cleanup(st, autoDeleteFailed, rmOk, ioOk, readdirOk) ==
    LET errs == {b \in DOMAIN st.mem.bundles : st.mem.bundles[b] = "error"}
        visited == IF autoDeleteFailed
                   THEN errs \ {st.mem.currentBundleId, st.mem.nextBundleId}
                   ELSE {}
        s1 == IF autoDeleteFailed THEN cleanupLoop(st, errs, 1, rmOk, ioOk) ELSE st
        s2 == cleanupOrphanedBundles(s1, readdirOk, rmOk)
        orphans == IF readdirOk THEN {f \in st.files : ~hasBundle(s1, f)} ELSE {}
        nFailed == Cardinality((visited \cup orphans) \ rmOk)
                   + Cardinality(visited \ ioOk)
                   + (IF readdirOk THEN 0 ELSE 1)
    IN  Ret([s2 EXCEPT !.faults = st.faults + nFailed], "none")

\* Values of the parts of the state that a specification does not exercise.
NoCalls == <<>>

NoStore == <<>>

NoCrypto == <<>>

NoEmitter == <<>>

NoDelay == <<>>

\* -------------------------------------------------------------- the calls
\* A call ends in the state r.st, whether it returned or threw.
Finish(r) ==
    /\ mem' = r.st.mem
    /\ disk' = r.st.disk
    /\ files' = r.st.files
    /\ faults' = r.st.faults
    /\ faults' <= MaxFaults

Running == phase = "running"

\* The fetch collaborator (DownloadManager) registers a fresh bundle, moves it
\* to downloading, and ends with an extracted directory and status success,
\* or with status error and no directory.
DownloadStart ==
    /\ Running
    /\ usedIds < MaxBundles
    /\ usedIds' = usedIds + 1
    /\ Finish(Ret(save(setBundle(St, usedIds + 1, "pending"), TRUE), "none"))
    /\ UNCHANGED <<config, phase, wd, calls, store, delay, crypto, emitter>>

DownloadProgress(b) ==
    /\ Running
    /\ getBundle(St, b) = "pending"
    /\ Finish(Ret(save(setBundle(St, b, "downloading"), TRUE), "none"))
    /\ UNCHANGED <<usedIds, config, phase, wd, calls, store, delay, crypto, emitter>>

DownloadFinish(b, ok) ==
    /\ Running
    /\ getBundle(St, b) = "downloading"
    /\ Finish(Ret(save([setBundle(St, b, IF ok THEN "success" ELSE "error")
                           EXCEPT !.files = IF ok THEN @ \cup {b} ELSE @],
                       TRUE), "none"))
    /\ UNCHANGED <<usedIds, config, phase, wd, calls, store, delay, crypto, emitter>>

CallNext(id) ==
    /\ Running
    /\ \E valid \in VerifyOutcomes(files, id), ioOk \in IoOutcomes :
         Finish(next(St, id, valid, ioOk))
    /\ UNCHANGED <<usedIds, config, phase, wd, calls, store, delay, crypto, emitter>>

CallDeleteBundle(id) ==
    /\ Running
    /\ \E rmOk \in IoOutcomes, ioOk \in IoOutcomes :
         Finish(deleteBundle(St, id, rmOk, ioOk))
    /\ UNCHANGED <<usedIds, config, phase, wd, calls, store, delay, crypto, emitter>>

CallSetBundleError(id) ==
    /\ Running
    /\ \E allow \in BOOLEAN, rmOk \in IoOutcomes, ioOk1 \in IoOutcomes, ioOk \in IoOutcomes :
         Finish(setBundleError(St, id, allow, config.autoDeleteFailed, rmOk, ioOk1, ioOk))
    /\ UNCHANGED <<usedIds, config, phase, wd, calls, store, delay, crypto, emitter>>

CallGetFailedUpdate ==
    /\ Running
    /\ Finish(getFailedUpdate(St))
    /\ UNCHANGED <<usedIds, config, phase, wd, calls, store, delay, crypto, emitter>>

CallReset ==
    /\ Running
    /\ \E toLastSuccessful \in BOOLEAN, ioOk \in IoOutcomes :
         Finish(reset(St, toLastSuccessful, ioOk))
    /\ UNCHANGED <<usedIds, config, phase, wd, calls, store, delay, crypto, emitter>>

CallCleanup ==
    /\ Running
    /\ \E rmOk \in SUBSET files, readdirOk \in IoOutcomes,
          ioOk \in SUBSET {b \in DOMAIN mem.bundles : mem.bundles[b] = "error"} :
         Finish(cleanup(St, config.autoDeleteFailed, rmOk, ioOk, readdirOk))
    /\ UNCHANGED <<usedIds, config, phase, wd, calls, store, delay, crypto, emitter>>

\* ------------------------------------------- the manager called directly
\* BundleManager is exported for direct use: any operation, in any order.
\* list() reads the manifest and probes the disk; it assigns nothing.
CallList(raw) ==
    /\ Running
    /\ list(St, raw) \subseteq AnyId
    /\ UNCHANGED vars

NoWatchdog ==
    [state |-> "idle", timer |-> FALSE, elapsed |-> 0, rollbacks |-> 0,
     bundle |-> NoBundle, by |-> "none", since |-> 0]

Init ==
    /\ mem = createDefaultManifest
    /\ disk = <<>>
    /\ files = {}
    /\ usedIds = 0
    /\ faults = 0
    /\ config \in [autoDeleteFailed : BOOLEAN, autoDeletePrevious : BOOLEAN]
    /\ phase = "running"
    /\ wd = NoWatchdog
    /\ calls = NoCalls
    /\ store = NoStore
    /\ delay = NoDelay
    /\ crypto = NoCrypto
    /\ emitter = NoEmitter

\* StorageManager.initialize in a new process: the manifest is read back.
Restart ==
    /\ mem' = loadStorage(disk)
    /\ UNCHANGED <<disk, files, usedIds, faults, config, phase, wd, calls, store, delay, crypto, emitter>>

CallSet(id) ==
    /\ \E valid \in VerifyOutcomes(files, id), ioOk \in IoOutcomes,
          rmOk \in IoOutcomes, ioOk2 \in IoOutcomes :
         Finish(set(St, id, valid, ioOk, config.autoDeletePrevious, rmOk, ioOk2))
    /\ UNCHANGED <<usedIds, config, phase, wd, calls, store, delay, crypto, emitter>>

CallApplyPendingUpdate ==
    /\ \E valid \in VerifyOutcomes(files, mem.nextBundleId), ioOk \in IoOutcomes,
          rmOk \in IoOutcomes, ioOk2 \in IoOutcomes :
         Finish(applyPendingUpdate(St, valid, ioOk, config.autoDeletePrevious, rmOk, ioOk2))
    /\ UNCHANGED <<usedIds, config, phase, wd, calls, store, delay, crypto, emitter>>

CallMarkBundleSuccessful ==
    /\ \E ioOk \in IoOutcomes : Finish(markBundleSuccessful(St, ioOk))
    /\ UNCHANGED <<usedIds, config, phase, wd, calls, store, delay, crypto, emitter>>

CallRollback ==
    /\ \E ioOk1 \in IoOutcomes, rmOk \in IoOutcomes, ioOk2 \in IoOutcomes, ioOk \in IoOutcomes :
         Finish(rollback(St, config.autoDeleteFailed, ioOk1, rmOk, ioOk2, ioOk))
    /\ UNCHANGED <<usedIds, config, phase, wd, calls, store, delay, crypto, emitter>>

Next ==
    \/ DownloadStart
    \/ \E b \in BundleIds : DownloadProgress(b)
    \/ \E b \in BundleIds, ok \in BOOLEAN : DownloadFinish(b, ok)
    \/ \E id \in AnyId : CallNext(id)
    \/ \E id \in AnyId : CallSet(id)
    \/ \E id \in AnyId : CallDeleteBundle(id)
    \/ \E id \in AnyId : CallSetBundleError(id)
    \/ CallGetFailedUpdate
    \/ CallReset
    \/ CallApplyPendingUpdate
    \/ CallMarkBundleSuccessful
    \/ CallRollback
    \/ CallCleanup
    \/ \E raw \in BOOLEAN : CallList(raw)
    \/ Restart

Spec == Init /\ [][Next]_vars

\* The process ends while rollback() is suspended, and the next process
\* loads the storage file as rollback() left it.
CrashInRollback ==
    \E ioOk1 \in IoOutcomes, rmOk \in IoOutcomes, ioOk2 \in IoOutcomes :
        LET steps == rollbackSuspended(St, config.autoDeleteFailed, ioOk1, rmOk, ioOk2)
        IN  \E i \in DOMAIN steps :
                /\ disk' = steps[i].disk
                /\ files' = steps[i].files
                /\ faults' = steps[i].faults
                /\ faults' <= MaxFaults
                /\ mem' = loadStorage(disk')
                /\ UNCHANGED <<usedIds, config, phase, wd, calls, store, delay, crypto, emitter>>

NextCrash == Next \/ CrashInRollback

SpecCrash == Init /\ [][NextCrash]_vars

\* ------------------------------------------------- the readiness watchdog
\* ElectronUpdater wires the manager to the process: applyPendingUpdate runs
\* once at start, an activation arms the watchdog, the ready signal confirms
\* it, and its timer expiring rolls the bundle back.
\* An arming that leaves the outstanding timer running instead of starting
\* a new one.
arm_KeepsOldTimer(id, by) ==
    [state |-> "armed", timer |-> TRUE, elapsed |-> IF wd.timer THEN wd.elapsed ELSE 0,
     rollbacks |-> 0, bundle |-> id, by |-> by, since |-> 0]

\* Arming: any outstanding timer is cancelled and a single-shot timer is
\* started; elapsed is the age of the outstanding timer, since the time since
\* the latest activation.
arm(id, by) ==
    [state |-> "armed", timer |-> TRUE, elapsed |-> 0, rollbacks |-> 0,
     bundle |-> id, by |-> by, since |-> 0]

\* A confirmation that leaves the timer running.
confirm_KeepsTimer(w) == [w EXCEPT !.state = "confirmed"]

\* The ready signal: armed -> confirmed, and the timer is cancelled.
confirm(w) == [w EXCEPT !.state = "confirmed", !.timer = FALSE, !.elapsed = 0]

\* A timer that fires without leaving the armed state.
expire_StaysArmed(w) == [w EXCEPT !.timer = FALSE]

\* The timer firing: it is single-shot, and acts only while still armed.
expire(w) ==
    IF w.state = "armed"
    THEN [w EXCEPT !.state = "expired", !.timer = FALSE, !.elapsed = TimeoutTicks,
                   !.rollbacks = @ + 1]
    ELSE [w EXCEPT !.timer = FALSE]

\* The watchdog is studied over a file system that does not fail: the
\* budget of failing calls starts used up.
InitUpdater ==
    /\ mem = createDefaultManifest
    /\ disk = <<>>
    /\ files = {}
    /\ usedIds = 0
    /\ faults = MaxFaults
    /\ config \in [autoDeleteFailed : BOOLEAN, autoDeletePrevious : BOOLEAN]
    /\ phase = "starting"
    /\ wd = NoWatchdog
    /\ calls = NoCalls
    /\ store = NoStore
    /\ delay = NoDelay
    /\ crypto = NoCrypto
    /\ emitter = NoEmitter

\* The process ends and a new one loads the storage file.
ProcessRestart ==
    /\ mem' = loadStorage(disk)
    /\ phase' = "starting"
    /\ wd' = NoWatchdog
    /\ UNCHANGED <<disk, files, usedIds, faults, config, calls, store, delay, crypto, emitter>>

\* initialize(): applyPendingUpdate, and the watchdog armed on an activation.
Launch ==
    /\ phase = "starting"
    /\ phase' = "running"
    /\ \E valid \in VerifyOutcomes(files, mem.nextBundleId), ioOk \in IoOutcomes,
          rmOk \in IoOutcomes, ioOk2 \in IoOutcomes :
         LET r == applyPendingUpdate(St, valid, ioOk, config.autoDeletePrevious, rmOk, ioOk2)
         IN  /\ Finish(r)
             /\ wd' = IF r.applied THEN arm(r.bundleId, "apply") ELSE wd
    /\ UNCHANGED <<usedIds, config, calls, store, delay, crypto, emitter>>

\* updater.set: an immediate activation re-arms the watchdog.
UpdaterSet(id) ==
    /\ Running
    /\ \E valid \in VerifyOutcomes(files, id), ioOk \in IoOutcomes,
          rmOk \in IoOutcomes, ioOk2 \in IoOutcomes :
         LET r == set(St, id, valid, ioOk, config.autoDeletePrevious, rmOk, ioOk2)
         IN  /\ Finish(r)
             /\ wd' = IF r.err = "none" /\ id # BUILTIN_BUNDLE_ID THEN arm(id, "set") ELSE wd
    /\ UNCHANGED <<usedIds, config, phase, calls, store, delay, crypto, emitter>>

\* notifyAppReady while the watchdog is armed.
NotifyAppReady ==
    /\ Running
    /\ wd.state = "armed"
    /\ wd' = confirm(wd)
    /\ \E ioOk \in IoOutcomes : Finish(markBundleSuccessful(St, ioOk))
    /\ UNCHANGED <<usedIds, config, phase, calls, store, delay, crypto, emitter>>

\* Time passes and the timer is not due yet.
Tick ==
    /\ Running
    /\ wd.timer
    /\ wd.elapsed + 1 < TimeoutTicks
    /\ wd' = [wd EXCEPT !.elapsed = @ + 1, !.since = @ + 1]
    /\ UNCHANGED <<mem, disk, files, usedIds, faults, config, phase, calls, store, delay, crypto, emitter>>

\* Time reaches the timeout: the timer fires and rollback() is invoked.
Timeout ==
    /\ Running
    /\ wd.timer
    /\ wd.elapsed + 1 = TimeoutTicks
    /\ wd' = expire(wd)
    /\ IF wd'.rollbacks # wd.rollbacks
       THEN \E ioOk1 \in IoOutcomes, rmOk \in IoOutcomes, ioOk2 \in IoOutcomes, ioOk \in IoOutcomes :
                Finish(rollback(St, config.autoDeleteFailed, ioOk1, rmOk, ioOk2, ioOk))
       ELSE UNCHANGED <<mem, disk, files, faults>>
    /\ UNCHANGED <<usedIds, config, phase, calls, store, delay, crypto, emitter>>

NextUpdater ==
    \/ ProcessRestart
    \/ Launch
    \/ DownloadStart
    \/ \E b \in BundleIds : DownloadProgress(b)
    \/ \E b \in BundleIds, ok \in BOOLEAN : DownloadFinish(b, ok)
    \/ \E id \in AnyId : CallNext(id)
    \/ \E id \in AnyId : UpdaterSet(id)
    \/ \E id \in AnyId : CallDeleteBundle(id)
    \/ \E id \in AnyId : CallSetBundleError(id)
    \/ CallGetFailedUpdate
    \/ CallReset
    \/ CallCleanup
    \/ NotifyAppReady
    \/ Tick
    \/ Timeout

SpecUpdater == InitUpdater /\ [][NextUpdater]_vars

\* The event loop runs a due timer callback, and a started process runs its
\* initialization: the clock and the start-up cannot be postponed forever.
SpecUpdaterFair ==
    /\ SpecUpdater
    /\ WF_vars(Tick)
    /\ WF_vars(Timeout)
    /\ WF_vars(Launch)

\* ------------------------------------------------ calls that interleave
\* next(), set() and deleteBundle() are async functions: each runs to its next await,
\* and another call may run while it is suspended.  Nothing in BundleManager
\* or in the callers (IPC handlers, debug menu clicks) queues the calls.
\* The file system does not fail here.
Call(pc, id, prev) == [pc |-> pc, id |-> id, prev |-> prev]

IdleCall == Call("idle", NoBundle, NoBundle)

InitConcurrent ==
    /\ mem = createDefaultManifest
    /\ disk = <<>>
    /\ files = {}
    /\ usedIds = 0
    /\ faults = MaxFaults
    /\ config \in [autoDeleteFailed : BOOLEAN, autoDeletePrevious : BOOLEAN]
    /\ phase = "running"
    /\ wd = NoWatchdog
    /\ calls = [set |-> IdleCall, del |-> IdleCall, nxt |-> IdleCall]
    /\ store = NoStore
    /\ delay = NoDelay
    /\ crypto = NoCrypto
    /\ emitter = NoEmitter

\* The manifest is changed and save() is called; the call then awaits the write.
SetAssign(id) ==
    /\ mem' = [mem EXCEPT !.currentBundleId = id, !.nextBundleId = NoBundle]
    /\ disk' = <<mem'>>
    /\ calls' = [calls EXCEPT !.set = Call("save", id, mem.currentBundleId)]

\* set(): up to the await of verifyBundleIntegrity, or of save() for builtin.
SetBegin(id) ==
    /\ calls.set.pc = "idle"
    /\ hasBundle(St, id) \/ id = BUILTIN_BUNDLE_ID
    /\ IF id = BUILTIN_BUNDLE_ID
       THEN SetAssign(id)
       ELSE /\ calls' = [calls EXCEPT !.set = Call("verify", id, NoBundle)]
            /\ UNCHANGED <<mem, disk>>
    /\ UNCHANGED <<files, usedIds, faults, config, phase, wd, store, delay, crypto, emitter>>

\* set(): verification resolved; it throws, or assigns and awaits save().
SetVerified ==
    /\ calls.set.pc = "verify"
    /\ \E valid \in VerifyOutcomes(files, calls.set.id) :
         IF valid
         THEN SetAssign(calls.set.id)
         ELSE /\ calls' = [calls EXCEPT !.set = IdleCall]
              /\ UNCHANGED <<mem, disk>>
    /\ UNCHANGED <<files, usedIds, faults, config, phase, wd, store, delay, crypto, emitter>>

\* set(): save() resolved; the auto-delete of the previous bundle starts
\* (deleteBundle up to its await of deleteBundleFiles) or the call returns.
SetSaved ==
    /\ calls.set.pc = "save"
    /\ LET prev == calls.set.prev
           wanted == /\ config.autoDeletePrevious
                     /\ prev # BUILTIN_BUNDLE_ID
                     /\ prev # calls.set.id
           rejected == prev \in {mem.currentBundleId, mem.nextBundleId}
       IN  calls' = [calls EXCEPT !.set =
                        IF wanted /\ ~rejected THEN [@ EXCEPT !.pc = "rm"] ELSE IdleCall]
    /\ UNCHANGED <<mem, disk, files, usedIds, faults, config, phase, wd, store, delay, crypto, emitter>>

\* set(): the directory is removed, the entry dropped and save() called.
SetRemoved ==
    /\ calls.set.pc = "rm"
    /\ files' = files \ {calls.set.prev}
    /\ mem' = storageDeleteBundle(St, calls.set.prev).mem
    /\ disk' = <<mem'>>
    /\ calls' = [calls EXCEPT !.set.pc = "save2"]
    /\ UNCHANGED <<usedIds, faults, config, phase, wd, store, delay, crypto, emitter>>

SetReturned ==
    /\ calls.set.pc = "save2"
    /\ calls' = [calls EXCEPT !.set = IdleCall]
    /\ UNCHANGED <<mem, disk, files, usedIds, faults, config, phase, wd, store, delay, crypto, emitter>>

\* deleteBundle(): the three guards, then the await of deleteBundleFiles.
DelBegin(id) ==
    /\ calls.del.pc = "idle"
    /\ id # BUILTIN_BUNDLE_ID
    /\ id # mem.currentBundleId
    /\ id # mem.nextBundleId
    /\ calls' = [calls EXCEPT !.del = Call("rm", id, NoBundle)]
    /\ UNCHANGED <<mem, disk, files, usedIds, faults, config, phase, wd, store, delay, crypto, emitter>>

\* deleteBundle(): the directory is removed, the entry dropped, save() called.
DelRemoved ==
    /\ calls.del.pc = "rm"
    /\ files' = files \ {calls.del.id}
    /\ mem' = storageDeleteBundle(St, calls.del.id).mem
    /\ disk' = <<mem'>>
    /\ calls' = [calls EXCEPT !.del.pc = "save"]
    /\ UNCHANGED <<usedIds, faults, config, phase, wd, store, delay, crypto, emitter>>

DelReturned ==
    /\ calls.del.pc = "save"
    /\ calls' = [calls EXCEPT !.del = IdleCall]
    /\ UNCHANGED <<mem, disk, files, usedIds, faults, config, phase, wd, store, delay, crypto, emitter>>

\* next(): the two guards, then the await of verifyBundleIntegrity.
NextBegin(id) ==
    /\ calls.nxt.pc = "idle"
    /\ getBundle(St, id) = "success"
    /\ calls' = [calls EXCEPT !.nxt = Call("verify", id, NoBundle)]
    /\ UNCHANGED <<mem, disk, files, usedIds, faults, config, phase, wd, store, delay, crypto, emitter>>

\* next(): verification resolved; it throws, or queues the bundle and
\* awaits save().
NextVerified ==
    /\ calls.nxt.pc = "verify"
    /\ \E valid \in VerifyOutcomes(files, calls.nxt.id) :
         IF valid
         THEN /\ mem' = setNextBundleId(St, calls.nxt.id).mem
              /\ disk' = <<mem'>>
              /\ calls' = [calls EXCEPT !.nxt.pc = "save"]
         ELSE /\ calls' = [calls EXCEPT !.nxt = IdleCall]
              /\ UNCHANGED <<mem, disk>>
    /\ UNCHANGED <<files, usedIds, faults, config, phase, wd, store, delay, crypto, emitter>>

NextReturned ==
    /\ calls.nxt.pc = "save"
    /\ calls' = [calls EXCEPT !.nxt = IdleCall]
    /\ UNCHANGED <<mem, disk, files, usedIds, faults, config, phase, wd, store, delay, crypto, emitter>>

NextConcurrent ==
    \/ DownloadStart
    \/ \E b \in BundleIds : DownloadProgress(b)
    \/ \E b \in BundleIds, ok \in BOOLEAN : DownloadFinish(b, ok)
    \/ \E id \in AnyId : SetBegin(id)
    \/ SetVerified
    \/ SetSaved
    \/ SetRemoved
    \/ SetReturned
    \/ \E id \in BundleIds : DelBegin(id)
    \/ DelRemoved
    \/ DelReturned
    \/ \E id \in BundleIds : NextBegin(id)
    \/ NextVerified
    \/ NextReturned

SpecConcurrent == InitConcurrent /\ [][NextConcurrent]_vars

\* ------------------------------------------------- the storage document
\* The storage file as loadStorage meets it: absent, unreadable (readFile
\* throws), garbage (JSON.parse throws), the JSON value null, a JSON value
\* without a manifest (such as {}), or a document written by save().  A
\* document holds the device identifier id, encrypted `layers` times over,
\* and the manifest.
FileKinds == {"absent", "unreadable", "garbage", "null", "nomanifest", "doc"}

Content(kind, id, layers, manifest) ==
    [kind |-> kind, id |-> id, layers |-> layers, manifest |-> manifest]

NoContent(kind) == Content(kind, 0, 0, <<>>)

createDefaultStorage(uuid) == Content("doc", uuid, 0, <<createDefaultManifest>>)

\* The data loadStorage returns for a file, with safeStorage available or
\* not, when the next randomUUID() is uuid.
loadStorageFile(file, enc, uuid) ==
    CASE file.kind = "doc" ->
            \* decryptString fails on an identifier that is not encrypted
            [file EXCEPT !.layers = IF enc /\ @ > 0 THEN @ - 1 ELSE @]
      [] file.kind = "nomanifest" -> file
      [] OTHER -> createDefaultStorage(uuid)

\* Whether this load drew a fresh identifier.
loadGenerates(file) == file.kind \notin {"doc", "nomanifest"}

\* What save() writes for the loaded data.
saveFile(data, enc) == [data EXCEPT !.layers = IF enc THEN @ + 1 ELSE @]

\* getCurrentBundleId and the other manifest reads: data?.manifest.x throws
\* a TypeError when data is there and has no manifest.
manifestReadThrows(data) == data.kind = "nomanifest"

getDeviceId(data) == <<data.id, data.layers>>

InitStorage ==
    /\ mem = createDefaultManifest
    /\ disk = <<>>
    /\ files = {}
    /\ usedIds = 0
    /\ faults = MaxFaults
    /\ config = [autoDeleteFailed |-> TRUE, autoDeletePrevious |-> TRUE]
    /\ phase = "starting"
    /\ wd = NoWatchdog
    /\ calls = NoCalls
    /\ \E kind \in FileKinds \ {"doc"}, enc \in BOOLEAN :
         store = [file |-> NoContent(kind), data |-> NoContent("none"),
                  enc |-> enc, uuids |-> 0]
    /\ delay = NoDelay
    /\ crypto = NoCrypto
    /\ emitter = NoEmitter

\* A new process: initialize() loads the file.
Initialize(enc) ==
    /\ loadGenerates(store.file) => store.uuids < MaxUuids
    /\ store' = [store EXCEPT
                    !.enc = enc,
                    !.data = loadStorageFile(store.file, enc, store.uuids + 1),
                    !.uuids = IF loadGenerates(store.file) THEN @ + 1 ELSE @]
    /\ UNCHANGED <<mem, disk, files, usedIds, faults, config, phase, wd, calls, delay, crypto, emitter>>

\* A manifest setter, here setCurrentBundleId: memory only.
StoreSetCurrent(id) ==
    /\ store.data.kind = "doc"
    /\ store' = [store EXCEPT !.data.manifest = <<[@[1] EXCEPT !.currentBundleId = id]>>]
    /\ UNCHANGED <<mem, disk, files, usedIds, faults, config, phase, wd, calls, delay, crypto, emitter>>

\* save(): the whole document replaces the file.
StoreSave ==
    /\ store.data.kind = "doc"
    /\ store.enc => store.data.layers < MaxLayers
    /\ store' = [store EXCEPT !.file = saveFile(store.data, store.enc)]
    /\ UNCHANGED <<mem, disk, files, usedIds, faults, config, phase, wd, calls, delay, crypto, emitter>>

NextStorage ==
    \/ \E enc \in BOOLEAN : Initialize(enc)
    \/ \E id \in AnyId : StoreSetCurrent(id)
    \/ StoreSave

SpecStorage == InitStorage /\ [][NextStorage]_vars

\* --------------------------------------- DeviceManager and ChannelManager
\* A custom id as the caller passes it: a string of spaces and letters.
IdChars == {" ", "x"}

CustomIdInputs == UNION {[1..n -> IdChars] : n \in 0..MaxIdLen}

Channels == {"prod", "beta"}

\* String.prototype.trim().
RECURSIVE trimStart(_)
trimStart(chars) ==
    IF chars # <<>> /\ Head(chars) = " " THEN trimStart(Tail(chars)) ELSE chars

RECURSIVE trimEnd(_)
trimEnd(chars) ==
    IF chars # <<>> /\ chars[Len(chars)] = " "
    THEN trimEnd(SubSeq(chars, 1, Len(chars) - 1))
    ELSE chars

trim(chars) == trimEnd(trimStart(chars))

\* StorageManager's accessors on the loaded data; the setters do nothing
\* before the data is loaded.
getCustomId(data) == IF data.kind = "doc" THEN data.manifest[1].customId ELSE NoCustomId

storeSetCustomId(data, customId) ==
    IF data.kind = "doc"
    THEN [data EXCEPT !.manifest = <<[@[1] EXCEPT !.customId = customId]>>]
    ELSE data

getChannel(data) == IF data.kind = "doc" THEN data.manifest[1].channel ELSE NoChannel

storeSetChannel(data, channel) ==
    IF data.kind = "doc"
    THEN [data EXCEPT !.manifest = <<[@[1] EXCEPT !.channel = channel]>>]
    ELSE data

\* save() on a store: nothing without data, else the whole document replaces
\* the file; ioOk: writeFile succeeds.
storeSave(sto, ioOk) ==
    IF sto.data.kind = "none" THEN sto
    ELSE IF ioOk THEN [sto EXCEPT !.file = saveFile(sto.data, sto.enc)]
    ELSE sto

\* Whether that save() throws.
storeSaveThrows(sto, ioOk) == sto.data.kind # "none" /\ ~ioOk

\* DeviceManager.setCustomId: the trimmed id, or null for an empty one, goes
\* to the manifest; it is saved only with persistCustomId.
setCustomId(sto, persistCustomId, customId, ioOk) ==
    LET id == IF trim(customId) = <<>> THEN NoCustomId ELSE trim(customId)
        s1 == [sto EXCEPT !.data = storeSetCustomId(sto.data, id)]
    IN  IF persistCustomId THEN storeSave(s1, ioOk) ELSE s1

clearCustomId(sto, persistCustomId, ioOk) ==
    LET s1 == [sto EXCEPT !.data = storeSetCustomId(sto.data, NoCustomId)]
    IN  IF persistCustomId THEN storeSave(s1, ioOk) ELSE s1

\* What makeRequest gives setChannel: it throws (network failure, timeout,
\* HTTP error, a body that is not JSON), or it returns the parsed body:
\* null, or an object whose status is absent or one of these strings.
Responses == {"throws", "null", "absent", "ok", "success", "error", "denied"}

ChannelRet(sto, status) == [sto |-> sto, status |-> status]

\* ChannelManager.setChannel: everything runs inside try, and the catch
\* returns status error. Reading status of a null body throws; so does the
\* assignment into a manifest that is missing, and a failing save.
setChannel(sto, channel, response, ioOk) ==
    IF response \in {"throws", "null"} THEN ChannelRet(sto, "error")
    ELSE LET status == IF response = "absent" THEN "ok" ELSE response
         IN  IF status \in {"ok", "success"}
             THEN IF sto.data.kind = "nomanifest" THEN ChannelRet(sto, "error")
                  ELSE LET s1 == [sto EXCEPT !.data = storeSetChannel(sto.data, channel)]
                       IN  IF storeSaveThrows(s1, ioOk) THEN ChannelRet(s1, "error")
                           ELSE ChannelRet(storeSave(s1, ioOk), status)
             ELSE ChannelRet(sto, status)

InitSettings ==
    /\ mem = createDefaultManifest
    /\ disk = <<>>
    /\ files = {}
    /\ usedIds = 0
    /\ faults = 0
    /\ config \in [autoDeleteFailed : {TRUE}, autoDeletePrevious : {TRUE},
                   persistCustomId : BOOLEAN]
    /\ phase = "starting"
    /\ wd = NoWatchdog
    /\ calls = NoCalls
    /\ \E kind \in FileKinds \ {"doc"}, enc \in BOOLEAN :
         store = [file |-> NoContent(kind), data |-> NoContent("none"),
                  enc |-> enc, uuids |-> 0]
    /\ delay = NoDelay
    /\ crypto = NoCrypto
    /\ emitter = NoEmitter

SettingsStep(sto, failedCalls) ==
    /\ store' = sto
    /\ faults' = faults + failedCalls
    /\ UNCHANGED <<mem, disk, files, usedIds, config, phase, wd, calls, delay, crypto, emitter>>

CallSetCustomId(customId) ==
    /\ store.data.kind = "doc"
    /\ \E ioOk \in IoOutcomes :
         SettingsStep(setCustomId(store, config.persistCustomId, customId, ioOk),
                      IF config.persistCustomId /\ ~ioOk THEN 1 ELSE 0)

CallClearCustomId ==
    /\ store.data.kind = "doc"
    /\ \E ioOk \in IoOutcomes :
         SettingsStep(clearCustomId(store, config.persistCustomId, ioOk),
                      IF config.persistCustomId /\ ~ioOk THEN 1 ELSE 0)

CallSetChannel(channel) ==
    /\ store.data.kind # "none"
    /\ \E response \in Responses, ioOk \in IoOutcomes :
         SettingsStep(setChannel(store, channel, response, ioOk).sto,
                      IF ioOk THEN 0 ELSE 1)

NextSettings ==
    \/ NextStorage
    \/ \E customId \in CustomIdInputs : CallSetCustomId(customId)
    \/ CallClearCustomId
    \/ \E channel \in Channels : CallSetChannel(channel)

SpecSettings == InitSettings /\ [][NextSettings]_vars

\* ----------------------------------------------------------- DelayManager
\* A delay condition {kind, value}.  The value string is absent, empty, a
\* string that parses to no number or date ("nan"), one that parses to n
\* ("num"), or the n-th version string of Versions ("ver").
ValueTags == {"absent", "empty", "nan", "num", "ver"}

\* Version strings, split at the dots, each part a sequence of characters:
\* 1.0.0, 0.9.0, 1.10.0, 1.9.0, 1.0, 1.x
Versions ==
    << << <<"1">>, <<"0">>, <<"0">> >>,
       << <<"0">>, <<"9">>, <<"0">> >>,
       << <<"1">>, <<"1", "0">>, <<"0">> >>,
       << <<"1">>, <<"9">>, <<"0">> >>,
       << <<"1">>, <<"0">> >>,
       << <<"1">>, <<"x">> >> >>

\* The versions the host application is built with: 1.0.0 and 1.10.0.
HostVersions == {1, 3}

Value(tag, n) == [tag |-> tag, n |-> n]

Cond(kind, value) == [kind |-> kind, value |-> value]

Values ==
    {Value(t, 0) : t \in {"absent", "empty", "nan"}}
        \cup {Value("num", n) : n \in 0..MaxClock}

CondSet ==
    {Cond(k, v) : k \in {"background", "date"}, v \in Values}
        \cup {Cond("kill", Value("absent", 0))}
        \cup {Cond("nativeVersion", Value("absent", 0))}
        \cup {Cond("nativeVersion", Value("ver", n)) : n \in DOMAIN Versions}

CondLists == UNION {[1..n -> CondSet] : n \in 0..MaxConds}

\* !value: undefined and the empty string.
Falsy(v) == v.tag \in {"absent", "empty"}

\* parseInt(value, 10) and new Date(value).getTime(): a number, or NaN.
Parsed(v) == [nan |-> v.tag # "num", n |-> v.n]

\* x >= y in JavaScript: false when y is NaN.
Ge(x, y) == ~y.nan /\ x >= y.n

isBackgroundConditionSatisfied(d, v) ==
    IF d.backgroundStartTime = 0 THEN FALSE
    ELSE IF Falsy(v) THEN TRUE
    ELSE IF Parsed(v).nan THEN TRUE
    ELSE d.now - d.backgroundStartTime >= Parsed(v).n

\* new Date(value) does not throw: an unparsable value gives an Invalid Date.
isDateConditionSatisfied(d, v) ==
    IF Falsy(v) THEN TRUE ELSE Ge(d.now, Parsed(v))

Digits == <<"0", "1", "2", "3", "4", "5", "6", "7", "8", "9">>

IsDigit(c) == \E k \in DOMAIN Digits : Digits[k] = c

DigitVal(c) == (CHOOSE k \in DOMAIN Digits : Digits[k] = c) - 1

\* parseInt(p, 10) || 0: the leading digits of the part, 0 when it has none.
RECURSIVE parseDigits(_, _, _)
parseDigits(p, i, acc) ==
    IF i > Len(p) \/ ~IsDigit(p[i]) THEN acc
    ELSE parseDigits(p, i + 1, acc * 10 + DigitVal(p[i]))

\* A parse that reads the first character of the part only.
parseIntOrZero_FirstDigit(p) == parseDigits(SubSeq(p, 1, 1), 1, 0)

parseIntOrZero(p) == parseDigits(p, 1, 0)

PartAt(parts, i) == IF i <= Len(parts) THEN parseIntOrZero(parts[i]) ELSE 0

RECURSIVE compareFrom(_, _, _)
compareFrom(a, b, i) ==
    IF i > Len(a) /\ i > Len(b) THEN 0
    ELSE IF PartAt(a, i) < PartAt(b, i) THEN -1
    ELSE IF PartAt(a, i) > PartAt(b, i) THEN 1
    ELSE compareFrom(a, b, i + 1)

compareVersions(a, b) == compareFrom(a, b, 1)

isVersionConditionSatisfied(d, v) ==
    IF Falsy(v) THEN TRUE
    ELSE compareVersions(Versions[d.appVersion], Versions[v.n]) >= 0

isConditionSatisfied(d, c) ==
    CASE c.kind = "background" -> isBackgroundConditionSatisfied(d, c.value)
      [] c.kind = "kill" -> d.wasKilled
      [] c.kind = "date" -> isDateConditionSatisfied(d, c.value)
      [] c.kind = "nativeVersion" -> isVersionConditionSatisfied(d, c.value)
      [] OTHER -> TRUE

\* The loop of areConditionsSatisfied from the i-th condition on.
RECURSIVE satisfiedFrom(_, _)
satisfiedFrom(d, i) ==
    IF i > Len(d.conditions) THEN TRUE
    ELSE IF ~isConditionSatisfied(d, d.conditions[i]) THEN FALSE
    ELSE satisfiedFrom(d, i + 1)

\* A gate that looks at the first condition only.
areConditionsSatisfied_FirstOnly(d) ==
    IF Len(d.conditions) = 0 THEN TRUE
    ELSE isConditionSatisfied(d, d.conditions[1])

areConditionsSatisfied(d) ==
    IF Len(d.conditions) = 0 THEN TRUE ELSE satisfiedFrom(d, 1)

setMultiDelay(d, conditions) == [d EXCEPT !.conditions = conditions]

cancelDelay(d) == [d EXCEPT !.conditions = <<>>]

\* onBackground that restarts the measurement at every call.
onBackground_Restarts(d) == [d EXCEPT !.backgroundStartTime = d.now]

\* backgroundStartTime is null (here 0) while the app is in the foreground.
onBackground(d) ==
    IF d.backgroundStartTime = 0 THEN [d EXCEPT !.backgroundStartTime = d.now] ELSE d

onForeground(d) == [d EXCEPT !.backgroundStartTime = 0]

onAppStart(d) ==
    IF \E i \in DOMAIN d.conditions : d.conditions[i].kind = "kill"
    THEN [d EXCEPT !.wasKilled = TRUE]
    ELSE d

resetKillState(d) == [d EXCEPT !.wasKilled = FALSE]

\* What the host has really done, kept beside the manager's own fields:
\* bgOn/bgSince, whether and since when the app is in the background;
\* started, whether this process has made its onAppStart call;
\* killObserved, whether the stored conditions were there at that call and
\* have not been set again since.
History(d, bgOn, bgSince, killObserved) ==
    [conditions |-> d.conditions, now |-> d.now, appVersion |-> d.appVersion,
     backgroundStartTime |-> d.backgroundStartTime, wasKilled |-> d.wasKilled,
     bgOn |-> bgOn, bgSince |-> bgSince, started |-> d.started,
     killObserved |-> killObserved]

NewDelayManager(conditions, now, appVersion) ==
    [conditions |-> conditions, now |-> now, appVersion |-> appVersion,
     backgroundStartTime |-> 0,
     wasKilled |-> FALSE, bgOn |-> FALSE, bgSince |-> 0, started |-> FALSE,
     killObserved |-> FALSE]

InitDelay ==
    /\ mem = createDefaultManifest
    /\ disk = <<>>
    /\ files = {}
    /\ usedIds = 0
    /\ faults = MaxFaults
    /\ config = [autoDeleteFailed |-> TRUE, autoDeletePrevious |-> TRUE]
    /\ phase = "starting"
    /\ wd = NoWatchdog
    /\ calls = NoCalls
    /\ store = NoStore
    /\ \E appVersion \in HostVersions : delay = NewDelayManager(<<>>, 1, appVersion)
    /\ crypto = NoCrypto
    /\ emitter = NoEmitter

DelayStep(d) ==
    /\ delay' = d
    /\ UNCHANGED <<mem, disk, files, usedIds, faults, config, phase, wd, calls, store, crypto, emitter>>

CallSetMultiDelay(conditions) ==
    DelayStep(History(setMultiDelay(delay, conditions), delay.bgOn, delay.bgSince, FALSE))

CallCancelDelay ==
    DelayStep(History(cancelDelay(delay), delay.bgOn, delay.bgSince, FALSE))

CallOnBackground ==
    DelayStep(History(onBackground(delay), TRUE,
                      IF delay.bgOn THEN delay.bgSince ELSE delay.now, delay.killObserved))

CallOnForeground ==
    DelayStep(History(onForeground(delay), FALSE, 0, delay.killObserved))

\* onAppStart is the host's call at start-up, once in a process.
CallOnAppStart ==
    /\ ~delay.started
    /\ DelayStep([History(onAppStart(delay), delay.bgOn, delay.bgSince,
                          \E i \in DOMAIN delay.conditions :
                              delay.conditions[i].kind = "kill")
                     EXCEPT !.started = TRUE])

CallResetKillState ==
    DelayStep(History(resetKillState(delay), delay.bgOn, delay.bgSince, delay.killObserved))

\* The wall clock advances.
ClockTick ==
    /\ delay.now < MaxClock
    /\ DelayStep([delay EXCEPT !.now = @ + 1])

\* The process ends and a new one constructs its DelayManager over the
\* stored conditions.
DelayRestart == DelayStep(NewDelayManager(delay.conditions, delay.now, delay.appVersion))

NextDelay ==
    \/ \E conditions \in CondLists : CallSetMultiDelay(conditions)
    \/ CallCancelDelay
    \/ CallOnBackground
    \/ CallOnForeground
    \/ CallOnAppStart
    \/ CallResetKillState
    \/ ClockTick
    \/ DelayRestart

SpecDelay == InitDelay /\ [][NextDelay]_vars

\* ------------------------------------------------ the gate and the swap
\* The host holds a BundleManager and a DelayManager over one StorageManager
\* (both are exported, and the debug menu calls BundleManager.set itself):
\* conditions are stored and cancelled, time passes, bundles are downloaded,
\* queued and activated.  The file system does not fail here.
InitGate ==
    /\ mem = createDefaultManifest
    /\ disk = <<>>
    /\ files = {}
    /\ usedIds = 0
    /\ faults = MaxFaults
    /\ config \in [autoDeleteFailed : BOOLEAN, autoDeletePrevious : BOOLEAN]
    /\ phase = "running"
    /\ wd = NoWatchdog
    /\ calls = NoCalls
    /\ store = NoStore
    /\ \E appVersion \in HostVersions : delay = NewDelayManager(<<>>, 1, appVersion)
    /\ crypto = NoCrypto
    /\ emitter = NoEmitter

NextGate ==
    \/ DownloadStart
    \/ \E b \in BundleIds : DownloadProgress(b)
    \/ \E b \in BundleIds, ok \in BOOLEAN : DownloadFinish(b, ok)
    \/ \E id \in AnyId : CallNext(id)
    \/ \E id \in AnyId : CallSet(id)
    \/ CallApplyPendingUpdate
    \/ \E c \in CondSet : CallSetMultiDelay(<<c>>)
    \/ CallCancelDelay
    \/ ClockTick

SpecGate == InitGate /\ [][NextGate]_vars

\* ---------------------------------------------------------- CryptoManager
\* A session key is a string over a two-letter alphabet, or the value a
\* caller without types passes instead of a string.
KeyChars == {"a", ":"}

KeyStrings == UNION {[1..n -> KeyChars] : n \in 0..MaxKeyLen}

SessionKeys == {[defined |-> TRUE, chars |-> k] : k \in KeyStrings}
                   \cup {[defined |-> FALSE, chars |-> <<>>]}

\* The configured public key: none, the empty string, a PEM key, or a string
\* that is not a key.
PublicKeys == {"null", "empty", "pem", "junk"}

\* The file decryptFile works on: absent, encrypted, not decryptable, or
\* already decrypted.
FileContents == {"absent", "cipher", "garbage", "plain"}

\* String.prototype.split(':'): the fields between the colons.
RECURSIVE splitFrom(_, _, _)
splitFrom(chars, i, field) ==
    IF i > Len(chars) THEN <<field>>
    ELSE IF chars[i] = ":" THEN <<field>> \o splitFrom(chars, i + 1, <<>>)
    ELSE splitFrom(chars, i + 1, Append(field, chars[i]))

split(chars) == splitFrom(chars, 1, <<>>)

NoKey == [kind |-> "null", iv |-> <<>>, aesKey |-> <<>>]

Threw == [kind |-> "threw", iv |-> <<>>, aesKey |-> <<>>]

\* parseSessionKey that accepts any key with at least two fields.
parseSessionKey_AtLeastTwo(c, sessionKey, rsaOk) ==
    IF c.publicKey \in {"null", "empty"} THEN NoKey
    ELSE IF ~sessionKey.defined THEN NoKey
    ELSE LET parts == split(sessionKey.chars)
         IN  IF Len(parts) < 2 THEN NoKey
             ELSE IF c.publicKey = "pem" /\ rsaOk
                  THEN [kind |-> "key", iv |-> parts[1], aesKey |-> parts[2]]
                  ELSE NoKey

\* The try block of parseSessionKey. rsaOk: publicDecrypt succeeds; it
\* throws under a string that is no key, and split throws on a value that is
\* no string.
parseSessionKeyTry(c, sessionKey, rsaOk) ==
    IF ~sessionKey.defined THEN Threw
    ELSE LET parts == split(sessionKey.chars)
         IN  IF Len(parts) # 2 THEN NoKey
             ELSE IF c.publicKey = "pem" /\ rsaOk
                  THEN [kind |-> "key", iv |-> parts[1], aesKey |-> parts[2]]
                  ELSE Threw

\* The check of the public key, then the try block with its catch.
parseSessionKey(c, sessionKey, rsaOk) ==
    IF c.publicKey \in {"null", "empty"} THEN NoKey
    ELSE LET r == parseSessionKeyTry(c, sessionKey, rsaOk)
         IN  IF r.kind = "threw" THEN NoKey ELSE r

\* decryptContent: the plain text, or null when the cipher throws.
decryptContent(data, parsed, aesOk) ==
    IF data = "cipher" /\ aesOk THEN "plain" ELSE "null"

CryptoRet(c, op, sessionKey, value) ==
    [c EXCEPT !.result = [op |-> op, sessionKey |-> sessionKey, value |-> value]]

\* decryptFile in place; readOk and writeOk: the file-system calls succeed.
decryptFile(c, sessionKey, rsaOk, readOk, aesOk, writeOk) ==
    LET parsed == parseSessionKey(c, sessionKey, rsaOk)
    IN  IF parsed.kind = "null" THEN CryptoRet(c, "decryptFile", sessionKey, "false")
        ELSE IF c.file = "absent" \/ ~readOk THEN CryptoRet(c, "decryptFile", sessionKey, "false")
        ELSE LET decrypted == decryptContent(c.file, parsed, aesOk)
             IN  IF decrypted = "null" THEN CryptoRet(c, "decryptFile", sessionKey, "false")
                 ELSE IF ~writeOk THEN CryptoRet(c, "decryptFile", sessionKey, "false")
                 ELSE CryptoRet([c EXCEPT !.file = decrypted], "decryptFile", sessionKey, "true")

\* decryptChecksum: the decrypted text or null; no file is involved.
decryptChecksum(c, encryptedChecksum, sessionKey, rsaOk, aesOk) ==
    LET parsed == parseSessionKey(c, sessionKey, rsaOk)
    IN  IF parsed.kind # "key" THEN CryptoRet(c, "decryptChecksum", sessionKey, "null")
        ELSE CryptoRet(c, "decryptChecksum", sessionKey,
                       decryptContent(encryptedChecksum, parsed, aesOk))

NewCryptoManager ==
    [publicKey |-> "null", file |-> "absent",
     result |-> [op |-> "none", sessionKey |-> [defined |-> FALSE, chars |-> <<>>],
                 value |-> "null"]]

InitCrypto ==
    /\ mem = createDefaultManifest
    /\ disk = <<>>
    /\ files = {}
    /\ usedIds = 0
    /\ faults = 0
    /\ config \in [autoDeleteFailed : {FALSE}, autoDeletePrevious : {FALSE}]
    /\ phase = "running"
    /\ wd = NoWatchdog
    /\ calls = NoCalls
    /\ store = NoStore
    /\ delay = NoDelay
    /\ crypto = NewCryptoManager
    /\ emitter = NoEmitter

CryptoStep(c) ==
    /\ crypto' = c
    /\ UNCHANGED <<mem, disk, files, usedIds, faults, config, phase, wd, calls, store, delay, emitter>>

SetPublicKey(key) == CryptoStep([crypto EXCEPT !.publicKey = key])

\* The download path leaves a file at the path.
WriteFile(content) == CryptoStep([crypto EXCEPT !.file = content])

CallParseSessionKey(sessionKey) ==
    \E rsaOk \in BOOLEAN :
        CryptoStep(CryptoRet(crypto, "parseSessionKey", sessionKey,
                             parseSessionKey(crypto, sessionKey, rsaOk).kind))

CallDecryptFile(sessionKey) ==
    \E rsaOk \in BOOLEAN, readOk \in BOOLEAN, aesOk \in BOOLEAN, writeOk \in BOOLEAN :
        CryptoStep(decryptFile(crypto, sessionKey, rsaOk, readOk, aesOk, writeOk))

CallDecryptChecksum(sessionKey) ==
    \E encryptedChecksum \in {"cipher", "garbage"}, rsaOk \in BOOLEAN, aesOk \in BOOLEAN :
        CryptoStep(decryptChecksum(crypto, encryptedChecksum, sessionKey, rsaOk, aesOk))

NextCrypto ==
    \/ \E key \in PublicKeys : SetPublicKey(key)
    \/ \E content \in FileContents \ {"plain"} : WriteFile(content)
    \/ \E sessionKey \in SessionKeys : CallParseSessionKey(sessionKey)
    \/ \E sessionKey \in SessionKeys : CallDecryptFile(sessionKey)
    \/ \E sessionKey \in SessionKeys : CallDecryptChecksum(sessionKey)

SpecCrypto == InitCrypto /\ [][NextCrypto]_vars

\* ---------------------------------------------------- UpdaterEventEmitter
\* listeners is a Map from event names to Sets of callbacks: `has` is the
\* set of keys of the Map, and listeners[event] the callbacks of the Set in
\* insertion order, which is the order forEach visits them in.
Events == {"download", "updateAvailable"}

Callbacks == 1..MaxCallbacks

Payloads == {1, 2}

\* What a callback does when it is invoked: it returns, it throws, or it
\* removes itself through its handle and returns.
Behaviour(callback) ==
    CASE callback = 1 -> "returns"
      [] callback = 2 -> "throws"
      [] OTHER -> "once"

Members(seq) == {seq[i] : i \in DOMAIN seq}

RECURSIVE Without(_, _)
Without(seq, x) ==
    IF seq = <<>> THEN <<>>
    ELSE IF Head(seq) = x THEN Without(Tail(seq), x)
    ELSE <<Head(seq)>> \o Without(Tail(seq), x)

NoEmit == [event |-> "none", data |-> 0, calls |-> <<>>, threw |-> FALSE]

NewEmitter ==
    [has |-> {}, listeners |-> [e \in Events |-> <<>>], registered |-> {}, last |-> NoEmit]

\* Set.add appends a callback that is not in the Set yet.
addListener(em, event, callback) ==
    [em EXCEPT !.has = @ \cup {event},
               !.listeners[event] = IF callback \in Members(@) THEN @ ELSE Append(@, callback)]

\* The remove() of the handle addListener(event, callback) returned.
handleRemove(em, event, callback) ==
    IF event \in em.has
    THEN [em EXCEPT !.listeners[event] = Without(@, callback)]
    ELSE em

removeListeners(em, event) ==
    [em EXCEPT !.has = @ \ {event}, !.listeners[event] = <<>>]

removeAllListeners(em) ==
    [em EXCEPT !.has = {}, !.listeners = [e \in Events |-> <<>>]]

\* forEach that lets the exception of a callback end the loop and the emit.
RECURSIVE forEach_Uncaught(_, _, _, _, _)
forEach_Uncaught(em, event, todo, data, invoked) ==
    IF todo = <<>>
    THEN [em EXCEPT !.last = [event |-> event, data |-> data, calls |-> invoked, threw |-> FALSE]]
    ELSE LET callback == Head(todo)
         IN  IF callback \notin Members(em.listeners[event])
             THEN forEach_Uncaught(em, event, Tail(todo), data, invoked)
             ELSE IF Behaviour(callback) = "throws"
                  THEN [em EXCEPT !.last = [event |-> event, data |-> data,
                                            calls |-> Append(invoked, callback), threw |-> TRUE]]
                  ELSE forEach_Uncaught(
                           IF Behaviour(callback) = "once"
                           THEN handleRemove(em, event, callback) ELSE em,
                           event, Tail(todo), data, Append(invoked, callback))

\* callbacks.forEach: the callbacks that were in the Set when the loop
\* began, each visited unless it has left the Set meanwhile; an exception of
\* a callback is caught and logged.
RECURSIVE forEach(_, _, _, _, _)
forEach(em, event, todo, data, invoked) ==
    IF todo = <<>>
    THEN [em EXCEPT !.last = [event |-> event, data |-> data, calls |-> invoked, threw |-> FALSE]]
    ELSE LET callback == Head(todo)
         IN  IF callback \notin Members(em.listeners[event])
             THEN forEach(em, event, Tail(todo), data, invoked)
             ELSE forEach(IF Behaviour(callback) = "once"
                          THEN handleRemove(em, event, callback) ELSE em,
                          event, Tail(todo), data, Append(invoked, callback))

\* emit without the try around the callback.
emit_Uncaught(em, event, data) ==
    IF event \in em.has
    THEN forEach_Uncaught(em, event, em.listeners[event], data, <<>>)
    ELSE [em EXCEPT !.last = [event |-> event, data |-> data, calls |-> <<>>, threw |-> FALSE]]

emit(em, event, data) ==
    IF event \in em.has
    THEN forEach(em, event, em.listeners[event], data, <<>>)
    ELSE [em EXCEPT !.last = [event |-> event, data |-> data, calls |-> <<>>, threw |-> FALSE]]

InitEmitter ==
    /\ mem = createDefaultManifest
    /\ disk = <<>>
    /\ files = {}
    /\ usedIds = 0
    /\ faults = 0
    /\ config \in [autoDeleteFailed : {FALSE}, autoDeletePrevious : {FALSE}]
    /\ phase = "running"
    /\ wd = NoWatchdog
    /\ calls = NoCalls
    /\ store = NoStore
    /\ delay = NoDelay
    /\ crypto = NoCrypto
    /\ emitter = NewEmitter

\* registered records, beside the Map, which callbacks have been added to
\* which event and not removed since.
EmitterStep(em, registered) ==
    /\ emitter' = [em EXCEPT !.registered = registered]
    /\ UNCHANGED <<mem, disk, files, usedIds, faults, config, phase, wd, calls, store, delay, crypto>>

AddListener(event, callback) ==
    EmitterStep(addListener(emitter, event, callback),
                emitter.registered \cup {<<event, callback>>})

\* remove() of a handle; one for a pair that was never added changes nothing.
HandleRemove(event, callback) ==
    EmitterStep(handleRemove(emitter, event, callback),
                emitter.registered \ {<<event, callback>>})

RemoveListeners(event) ==
    EmitterStep(removeListeners(emitter, event),
                {r \in emitter.registered : r[1] # event})

RemoveAllListeners == EmitterStep(removeAllListeners(emitter), {})

Emit(event, data) ==
    EmitterStep(emit(emitter, event, data),
                {r \in emitter.registered : ~(r[1] = event /\ Behaviour(r[2]) = "once")})

NextEmitter ==
    \/ \E event \in Events, callback \in Callbacks : AddListener(event, callback)
    \/ \E event \in Events, callback \in Callbacks : HandleRemove(event, callback)
    \/ \E event \in Events : RemoveListeners(event)
    \/ RemoveAllListeners
    \/ \E event \in Events, data \in Payloads : Emit(event, data)

SpecEmitter == InitEmitter /\ [][NextEmitter]_vars

\* ----------------------------------------------------------------- claims
Healthy(st, id) ==
    id = BUILTIN_BUNDLE_ID \/ (hasBundle(st, id) /\ getBundle(st, id) = "success")

\* C1: in every reachable state currentBundleId is the builtin id or the id
\* of a bundle still present in the manifest's bundle map, never a deleted id.
C1_CurrentIsBuiltinOrStored ==
    mem.currentBundleId = BUILTIN_BUNDLE_ID \/ hasBundle(St, mem.currentBundleId)

\* C2: whenever rollback() completes without a disk I/O failure, the current
\* bundle is builtin or a stored bundle with status success, and nextBundleId
\* is unset.
C2_RollbackLeavesHealthyCurrent ==
    LET r == rollback(St, config.autoDeleteFailed, TRUE, TRUE, TRUE, TRUE)
    IN  r.err = "none" =>
            /\ Healthy(r.st, r.st.mem.currentBundleId)
            /\ r.st.mem.nextBundleId = NoBundle

\* C3: a non-builtin bundle becomes current through set(id) or
\* applyPendingUpdate() only if it is known to the manifest, its status is
\* success and integrity re-verification passed.
C3_ActivatesOnlyVerifiedSuccess ==
    /\ \A id \in BundleIds : \A valid \in VerifyOutcomes(files, id) :
         LET r == set(St, id, valid, TRUE, config.autoDeletePrevious, TRUE, TRUE)
         IN  r.err = "none" =>
                 hasBundle(St, id) /\ getBundle(St, id) = "success" /\ valid
    /\ \A valid \in VerifyOutcomes(files, mem.nextBundleId) :
         LET r == applyPendingUpdate(St, valid, TRUE, config.autoDeletePrevious, TRUE, TRUE)
         IN  r.applied =>
                 hasBundle(St, r.bundleId) /\ getBundle(St, r.bundleId) = "success" /\ valid

\* C4: in every reachable state, if nextBundleId is set it refers to a bundle
\* present in the manifest whose status is success.
C4_NextIsStoredSuccess ==
    mem.nextBundleId # NoBundle =>
        hasBundle(St, mem.nextBundleId) /\ getBundle(St, mem.nextBundleId) = "success"

\* The id is in no manifest, in memory or on disk.
Gone(id) ==
    /\ id <= usedIds
    /\ ~hasBundle(St, id)
    /\ disk # <<>> => id \notin DOMAIN disk[1].bundles

DeleteRejectedWhenProtected ==
    \A id \in AnyId, rmOk \in IoOutcomes, ioOk \in IoOutcomes :
        id \in {mem.currentBundleId, mem.nextBundleId} =>
            LET r == deleteBundle(St, id, rmOk, ioOk)
            IN  r.err = "protected" /\ r.st = St

C5_DeleteContract ==
    /\ DeleteRejectedWhenProtected
    /\ \A id \in BundleIds \ {mem.currentBundleId, mem.nextBundleId} :
         \A rmOk \in IoOutcomes, ioOk \in IoOutcomes :
            LET r == deleteBundle(St, id, rmOk, ioOk)
            IN  /\ r.err = IoErr(ioOk)
                /\ ~hasBundle(r.st, id)
                /\ id \notin list(r.st, TRUE) \cup list(r.st, FALSE)
                /\ r.err = "none" => r.st.disk = <<r.st.mem>>
                /\ r.err = "io" => r.st.disk = disk

C6_NextSucceedsIffVerifiedSuccess ==
    \A id \in AnyId, ioOk \in IoOutcomes : \A valid \in VerifyOutcomes(files, id) :
        LET r == next(St, id, valid, ioOk)
        IN  /\ r.err = "none" <=> (hasBundle(St, id) /\ getBundle(St, id) = "success" /\ valid)
            /\ r.err = "none" => r.st.mem.nextBundleId = id /\ r.st.disk = <<r.st.mem>>
            /\ r.err # "none" => r.st.mem = mem

\* C7: calling applyPendingUpdate() twice in succession performs at most one
\* activation; the second call reports applied = false and leaves the
\* manifest unchanged; with nextBundleId unset or equal to currentBundleId
\* the call is a no-op.
C7_ApplyIsIdempotent ==
    \A ioOk \in IoOutcomes, rmOk \in IoOutcomes, ioOk2 \in IoOutcomes :
      \A valid \in VerifyOutcomes(files, mem.nextBundleId) :
        LET r1 == applyPendingUpdate(St, valid, ioOk, config.autoDeletePrevious, rmOk, ioOk2)
        IN  /\ (mem.nextBundleId = NoBundle \/ mem.nextBundleId = mem.currentBundleId) =>
                    ~r1.applied /\ r1.st = St /\ r1.bundleId = mem.currentBundleId
            /\ \A io \in BOOLEAN, rm \in BOOLEAN, io2 \in BOOLEAN :
                 \A valid2 \in VerifyOutcomes(r1.st.files, r1.st.mem.nextBundleId) :
                    LET r2 == applyPendingUpdate(r1.st, valid2, io, config.autoDeletePrevious, rm, io2)
                    IN  /\ ~r2.applied
                        /\ r2.bundleId = r1.st.mem.currentBundleId
                        /\ r2.st = r1.st

\* A queued bundle that the first of the two calls activates.
C7_Witness ==
    /\ mem.nextBundleId \in BundleIds
    /\ mem.nextBundleId # mem.currentBundleId
    /\ applyPendingUpdate(St, TRUE, TRUE, config.autoDeletePrevious, TRUE, TRUE).applied

\* The watchdog is armed and its timer fires at the next clock tick.
TimerDue == Running /\ wd.state = "armed" /\ wd.timer /\ wd.elapsed + 1 = TimeoutTicks

\* C8: with no last successful bundle, when the bundle b1 that
\* applyPendingUpdate() activated at start is still current and the readiness
\* timeout elapses with no ready signal, the rollback leaves currentBundleId =
\* builtin, the failed-update record naming b1, and b1 with status error.
C8_TimeoutRevertsToBuiltin ==
    (/\ TimerDue
     /\ wd.by = "apply"
     /\ mem.currentBundleId = wd.bundle
     /\ mem.lastSuccessfulBundleId = NoBundle) =>
        \A ioOk1 \in IoOutcomes, rmOk \in IoOutcomes, ioOk2 \in IoOutcomes, ioOk \in IoOutcomes :
            LET r == rollback(St, config.autoDeleteFailed, ioOk1, rmOk, ioOk2, ioOk)
            IN  r.err = "none" =>
                    /\ r.st.mem.currentBundleId = BUILTIN_BUNDLE_ID
                    /\ r.st.mem.failedUpdate = wd.bundle
                    /\ getBundle(r.st, wd.bundle) = "error"

\* The timer of a bundle activated at start has expired and rolled it back.
C8_Witness ==
    /\ wd.state = "expired"
    /\ wd.by = "apply"
    /\ wd.bundle \in BundleIds
    /\ mem.lastSuccessfulBundleId = NoBundle
    /\ mem.currentBundleId = BUILTIN_BUNDLE_ID
    /\ mem.failedUpdate = wd.bundle
    /\ getBundle(St, wd.bundle) = "error"

\* C9: when the host signals ready while the watchdog is armed,
\* lastSuccessfulBundleId becomes the bundle current at that moment (the
\* activated bundle b when it is still current), currentBundleId stays, and
\* no other manifest field changes.
C9_ReadyRecordsCurrent ==
    (Running /\ wd.state = "armed") =>
        \A ioOk \in BOOLEAN :
            LET r == markBundleSuccessful(St, ioOk)
            IN  /\ r.st.mem = [mem EXCEPT !.lastSuccessfulBundleId = mem.currentBundleId]
                /\ r.st.files = files
                /\ mem.currentBundleId = wd.bundle =>
                       /\ r.st.mem.lastSuccessfulBundleId = wd.bundle
                       /\ r.st.mem.currentBundleId = wd.bundle

\* The activated bundle was confirmed and is recorded as last successful.
C9_Witness ==
    /\ wd.state = "confirmed"
    /\ wd.bundle \in BundleIds
    /\ mem.currentBundleId = wd.bundle
    /\ mem.lastSuccessfulBundleId = wd.bundle

\* C10: once armed, the watchdog invokes rollback() exactly once, when the
\* timeout has elapsed and not before; a ready signal before the timeout
\* cancels the timer, and then rollback() is never invoked for that
\* activation.
C10_WatchdogFiresOnceAtTimeout ==
    /\ wd.rollbacks <= 1
    /\ wd.state = "armed" => wd.timer /\ wd.elapsed < TimeoutTicks /\ wd.rollbacks = 0
    /\ wd.state = "confirmed" => ~wd.timer /\ wd.rollbacks = 0
    /\ wd.state = "idle" => ~wd.timer /\ wd.rollbacks = 0
    /\ wd.state = "expired" => ~wd.timer /\ wd.elapsed = TimeoutTicks /\ wd.rollbacks = 1
    /\ wd.elapsed = TimeoutTicks => wd.state = "expired"

\* The timer ran out and rollback() was invoked.
C10_Witness == wd.state = "expired" /\ wd.rollbacks = 1 /\ wd.elapsed = TimeoutTicks

Rearm == wd.state = "armed" /\ wd.elapsed > 0 /\ wd'.state = "armed" /\ wd'.elapsed = 0

\* What the two ways out of the armed state leave in the manifest.
ArmedExits ==
    /\ (wd.state = "armed" /\ wd'.state = "confirmed") =>
           /\ mem'.lastSuccessfulBundleId = mem.currentBundleId
           /\ mem'.currentBundleId = mem.currentBundleId
    /\ (wd.state = "armed" /\ wd'.state = "expired") =>
           /\ mem'.currentBundleId =
                  (IF mem.lastSuccessfulBundleId # NoBundle
                   THEN mem.lastSuccessfulBundleId ELSE BUILTIN_BUNDLE_ID)
           /\ mem'.nextBundleId = NoBundle
           /\ disk' = <<mem'>>
    /\ (wd.state = "armed" /\ wd'.state = "idle") => phase' = "starting"

C12_FailedUpdateConsumedOnRead ==
    LET r == getFailedUpdate(St)
        \* what a getFailedUpdate() returns is the record it finds in memory
        laterInProcess == r.st.mem.failedUpdate
        laterAfterRestart == loadStorage(r.st.disk).failedUpdate
    IN  laterInProcess = NoBundle /\ laterAfterRestart = NoBundle

\* The storage file holds exactly the in-memory manifest.
Synced(st) == loadStorage(st.disk) = st.mem

Persisted(r) == r.err = "none" => Synced(r.st)

\* C13: whenever next, set, deleteBundle, setBundleError, getFailedUpdate,
\* reset, applyPendingUpdate, markBundleSuccessful or rollback returns
\* successfully, the persisted manifest equals the in-memory manifest.
C13_SuccessfulCallsPersist ==
    Synced(St) =>
        /\ \A id \in AnyId, ioOk \in IoOutcomes, rmOk \in IoOutcomes, ioOk2 \in IoOutcomes :
             \A valid \in VerifyOutcomes(files, id) :
                /\ Persisted(next(St, id, valid, ioOk))
                /\ Persisted(set(St, id, valid, ioOk, config.autoDeletePrevious, rmOk, ioOk2))
                /\ Persisted(deleteBundle(St, id, rmOk, ioOk))
                /\ Persisted(setBundleError(St, id, TRUE, config.autoDeleteFailed,
                                            rmOk, ioOk2, ioOk))
        /\ Persisted(getFailedUpdate(St))
        /\ \A toLastSuccessful \in BOOLEAN, ioOk \in IoOutcomes :
             Persisted(reset(St, toLastSuccessful, ioOk))
        /\ \A ioOk \in IoOutcomes, rmOk \in IoOutcomes, ioOk2 \in IoOutcomes :
             \A valid \in VerifyOutcomes(files, mem.nextBundleId) :
                Persisted(applyPendingUpdate(St, valid, ioOk, config.autoDeletePrevious,
                                             rmOk, ioOk2))
        /\ \A ioOk \in IoOutcomes : Persisted(markBundleSuccessful(St, ioOk))
        /\ \A ioOk1 \in IoOutcomes, rmOk \in IoOutcomes, ioOk2 \in IoOutcomes,
              ioOk \in IoOutcomes :
             Persisted(rollback(St, config.autoDeleteFailed, ioOk1, rmOk, ioOk2, ioOk))

\* C14: manifest-mutating operations are serialized: no operation runs while
\* another one is between its first manifest read and its final persist.
C14_OperationsSerialized ==
    ~(calls.set.pc # "idle" /\ calls.del.pc # "idle")

\* C15: when the storage file is absent, unreadable, not valid JSON, or
\* parses to a document without a well-formed manifest, initialization falls
\* back to the default manifest and every later manifest read succeeds.
C15_LoadFallsBackToDefault ==
    store.file.kind # "doc" =>
        \A enc \in BOOLEAN :
            LET data == loadStorageFile(store.file, enc, store.uuids + 1)
            IN  /\ data.manifest = <<createDefaultManifest>>
                /\ ~manifestReadThrows(data)

\* C16: the device identifier is generated once: a later load, in any later
\* process lifetime and whatever ran in between, yields the same identifier
\* (the storage file being absent or a document that save() wrote).
C16_DeviceIdGeneratedOnce ==
    [][(/\ store.file.kind \in {"absent", "doc"}
        /\ store.data.kind = "doc"
        /\ store'.data.kind = "doc")
         => getDeviceId(store'.data) = getDeviceId(store.data)]_vars

Reverse(s) == [i \in DOMAIN s |-> s[Len(s) + 1 - i]]

\* C17: the delay gate is open exactly when every stored condition is
\* satisfied on its own: with no condition it is open, and one unsatisfied
\* condition closes it wherever it stands in the list.
C17_GateOpenIffAllSatisfied ==
    LET each == \A i \in DOMAIN delay.conditions :
                    isConditionSatisfied(delay, delay.conditions[i])
        reversed == [delay EXCEPT !.conditions = Reverse(delay.conditions)]
    IN /\ areConditionsSatisfied(delay) = each
       /\ areConditionsSatisfied(reversed) = areConditionsSatisfied(delay)
       /\ delay.conditions = <<>> => areConditionsSatisfied(delay)

\* A satisfied condition stands before an unsatisfied one, and the gate is closed.
C17_Witness ==
    /\ Len(delay.conditions) = 2
    /\ isConditionSatisfied(delay, delay.conditions[1])
    /\ ~isConditionSatisfied(delay, delay.conditions[2])
    /\ delay.conditions[1].kind = "date"
    /\ delay.conditions[2].kind = "nativeVersion"
    /\ ~areConditionsSatisfied(delay)

\* C18: a stored date condition is satisfied exactly when the wall clock has
\* reached the date its value parses to; with no value, or a value that is
\* no date, it is satisfied.
C18_DateSatisfiedIffReached ==
    \A i \in DOMAIN delay.conditions :
        LET c == delay.conditions[i]
        IN c.kind = "date" =>
               isConditionSatisfied(delay, c)
                   = (IF c.value.tag = "num" THEN delay.now >= c.value.n ELSE TRUE)

\* C19: a stored kill condition is satisfied only if this process observed
\* its start (onAppStart) with that condition already stored, and a kill
\* condition stored at start-up is satisfied once onAppStart has run.
C19_KillSatisfiedOnlyAfterStart ==
    \A i \in DOMAIN delay.conditions :
        LET c == delay.conditions[i]
        IN c.kind = "kill" =>
               /\ isConditionSatisfied(delay, c) => delay.killObserved
               /\ isConditionSatisfied(onAppStart(delay), c)

\* C20: a stored background condition with value v (a number of ms, or none)
\* is satisfied exactly when the app is in the background and has been there
\* without interruption for at least v ms, any time sufficing when there is
\* no value; after onForeground it is unsatisfied, and onBackground on an
\* app already in the background leaves the measured start where it was.
C20_BackgroundSatisfiedIffContinuous ==
    \A i \in DOMAIN delay.conditions :
        LET c == delay.conditions[i]
        IN (c.kind = "background" /\ c.value.tag # "nan") =>
               /\ isConditionSatisfied(delay, c)
                      = (/\ delay.bgOn
                         /\ Falsy(c.value) \/ delay.now - delay.bgSince >= c.value.n)
               /\ ~isConditionSatisfied(onForeground(delay), c)
               /\ delay.bgOn =>
                      onBackground(delay).backgroundStartTime = delay.backgroundStartTime

\* The app went to the background at 1 and is still there at MaxClock, with
\* a condition asking for that long stored and satisfied.
C20_Witness ==
    /\ delay.bgOn
    /\ delay.bgSince = 1
    /\ delay.now = MaxClock
    /\ \E i \in DOMAIN delay.conditions :
           /\ delay.conditions[i] = Cond("background", Value("num", MaxClock - 1))
           /\ isConditionSatisfied(delay, delay.conditions[i])

\* The numbers the version strings of Versions stand for, part by part, with
\* a missing or unparsable part as 0.
VersionNumbers ==
    << <<1, 0, 0>>, <<0, 9, 0>>, <<1, 10, 0>>, <<1, 9, 0>>, <<1, 0, 0>>, <<1, 0, 0>> >>

\* Component-wise order on three parts of less than 100 each.
Weight(n) == (n[1] * 100 + n[2]) * 100 + n[3]

\* C21: a stored nativeVersion condition with value v is satisfied exactly
\* when the host version is at least v, compared part by part as integers
\* with missing or unparsable parts as 0 (1.10.0 is above 1.9.0, and 1.0
\* equals 1.0.0); with no value it is satisfied.
C21_VersionComparedByComponents ==
    /\ \A i \in DOMAIN delay.conditions :
         LET c == delay.conditions[i]
         IN  c.kind = "nativeVersion" =>
                isConditionSatisfied(delay, c)
                    = (IF c.value.tag = "ver"
                       THEN Weight(VersionNumbers[delay.appVersion])
                                >= Weight(VersionNumbers[c.value.n])
                       ELSE TRUE)
    /\ \A a \in DOMAIN Versions, b \in DOMAIN Versions :
         compareVersions(Versions[a], Versions[b])
             = (IF Weight(VersionNumbers[a]) < Weight(VersionNumbers[b]) THEN -1
                ELSE IF Weight(VersionNumbers[a]) > Weight(VersionNumbers[b]) THEN 1
                ELSE 0)

\* A host at 1.10.0 with a stored condition asking for 1.9.0, satisfied.
C21_Witness ==
    /\ Versions[delay.appVersion] = << <<"1">>, <<"1", "0">>, <<"0">> >>
    /\ \E i \in DOMAIN delay.conditions :
           /\ delay.conditions[i].kind = "nativeVersion"
           /\ delay.conditions[i].value.tag = "ver"
           /\ Versions[delay.conditions[i].value.n] = << <<"1">>, <<"9">>, <<"0">> >>
           /\ isConditionSatisfied(delay, delay.conditions[i])

SetBundleErrorRejected ==
    \A id \in AnyId, allow \in BOOLEAN :
      \A rmOk \in IoOutcomes, ioOk1 \in IoOutcomes, ioOk \in IoOutcomes :
        LET r == setBundleError(St, id, allow, config.autoDeleteFailed, rmOk, ioOk1, ioOk)
        IN  /\ ~allow => r.err = "permission" /\ r.st = St
            /\ ~hasBundle(St, id) => r.err \in {"permission", "notfound"} /\ r.st = St

\* C22: setBundleError(id) is rejected with the manifest unchanged when
\* manual error marking is disabled, and rejected for an unknown id; when it
\* is enabled and id is known, the status of the bundle becomes error and
\* the change is persisted.
C22_SetBundleErrorMarksAndPersists ==
    /\ SetBundleErrorRejected
    /\ \A id \in DOMAIN mem.bundles :
         \A rmOk \in IoOutcomes, ioOk1 \in IoOutcomes, ioOk \in IoOutcomes :
           LET r == setBundleError(St, id, TRUE, config.autoDeleteFailed, rmOk, ioOk1, ioOk)
           IN  /\ r.err = "none"
               /\ getBundle(r.st, id) = "error"
               /\ r.st.disk = <<r.st.mem>>

\* C22 amended: setBundleError(id) is rejected with the manifest unchanged
\* when manual error marking is disabled, and rejected for an unknown id;
\* when it is enabled and id is known, the bundle gets status error, or is
\* removed from the manifest when auto-delete-failed is enabled and it is
\* neither current nor next; no other entry or field changes; the call
\* succeeds with the change persisted unless its save fails.
C22_SetBundleErrorMarksOrDeletes ==
    /\ SetBundleErrorRejected
    /\ \A id \in DOMAIN mem.bundles :
         \A rmOk \in IoOutcomes, ioOk1 \in IoOutcomes, ioOk \in IoOutcomes :
           LET r == setBundleError(St, id, TRUE, config.autoDeleteFailed, rmOk, ioOk1, ioOk)
               deleted == /\ config.autoDeleteFailed
                          /\ id \notin {mem.currentBundleId, mem.nextBundleId}
           IN  /\ r.err = IoErr(ioOk)
               /\ getBundle(r.st, id) = (IF deleted THEN "null" ELSE "error")
               /\ \A b \in DOMAIN mem.bundles \ {id} : getBundle(r.st, b) = getBundle(St, b)
               /\ r.st.mem = [mem EXCEPT !.bundles = r.st.mem.bundles]
               /\ r.err = "none" => r.st.disk = <<r.st.mem>>

\* A bundle that was downloaded with success and that setBundleError marks.
C22_Witness ==
    \E id \in DOMAIN mem.bundles :
        /\ getBundle(St, id) = "success"
        /\ getBundle(setBundleError(St, id, TRUE, config.autoDeleteFailed, TRUE, TRUE, TRUE).st, id)
               = "error"

\* C23: after any sequence of operations the builtin id is not a key of the
\* bundle map, in memory or in the storage file, the builtin descriptor has
\* status success, and deleteBundle(builtin) is rejected with nothing changed.
C23_BuiltinReservedAndProtected ==
    /\ BUILTIN_BUNDLE_ID \notin DOMAIN mem.bundles
    /\ BUILTIN_BUNDLE_ID \notin DOMAIN loadStorage(disk).bundles
    /\ getBuiltinBundle.id = BUILTIN_BUNDLE_ID
    /\ getBuiltinBundle.status = "success"
    /\ \A rmOk \in IoOutcomes, ioOk \in IoOutcomes :
         LET r == deleteBundle(St, BUILTIN_BUNDLE_ID, rmOk, ioOk)
         IN  r.err = "protected" /\ r.st = St

\* A downloaded bundle is current and another is queued: builtin is neither
\* current nor next when its deletion is asked for.
C23_Witness ==
    /\ mem.currentBundleId \in BundleIds
    /\ mem.nextBundleId \in BundleIds
    /\ deleteBundle(St, BUILTIN_BUNDLE_ID, TRUE, TRUE).err = "protected"

\* C24: while a stored delay condition is unsatisfied, neither
\* applyPendingUpdate() nor set(id) of a downloaded bundle changes
\* currentBundleId.
C24_ActivationWaitsForGate ==
    ~areConditionsSatisfied(delay) =>
        \A ioOk \in IoOutcomes, rmOk \in IoOutcomes, ioOk2 \in IoOutcomes :
            /\ \A valid \in VerifyOutcomes(files, mem.nextBundleId) :
                   applyPendingUpdate(St, valid, ioOk, config.autoDeletePrevious, rmOk, ioOk2)
                       .st.mem.currentBundleId = mem.currentBundleId
            /\ \A id \in BundleIds : \A valid \in VerifyOutcomes(files, id) :
                   set(St, id, valid, ioOk, config.autoDeletePrevious, rmOk, ioOk2)
                       .st.mem.currentBundleId = mem.currentBundleId

\* C25: after a successful set(id), currentBundleId = id and nextBundleId is
\* unset; with auto-delete-previous enabled and a previous current bundle
\* that is neither builtin nor id, that bundle is no longer in the manifest;
\* with id already current no bundle is deleted; no other bundle entry
\* changes, and lastSuccessfulBundleId and failedUpdate stay.
C25_SetFrame ==
    \A id \in AnyId, ioOk \in IoOutcomes, rmOk \in IoOutcomes, ioOk2 \in IoOutcomes :
      \A valid \in VerifyOutcomes(files, id) :
        LET r == set(St, id, valid, ioOk, config.autoDeletePrevious, rmOk, ioOk2)
            prev == mem.currentBundleId
            deletes == config.autoDeletePrevious /\ prev \notin {BUILTIN_BUNDLE_ID, id}
        IN  r.err = "none" =>
                /\ r.st.mem.currentBundleId = id
                /\ r.st.mem.nextBundleId = NoBundle
                /\ deletes => ~hasBundle(r.st, prev)
                /\ prev = id => r.st.mem.bundles = mem.bundles
                /\ ~deletes => r.st.mem.bundles = mem.bundles
                /\ \A b \in AnyId \ {prev} : getBundle(r.st, b) = getBundle(St, b)
                /\ r.st.mem.lastSuccessfulBundleId = mem.lastSuccessfulBundleId
                /\ r.st.mem.failedUpdate = mem.failedUpdate

\* A downloaded bundle is current, another is downloaded, and set() of the
\* second succeeds and removes the first.
C25_Witness ==
    /\ config.autoDeletePrevious
    /\ mem.currentBundleId \in BundleIds
    /\ hasBundle(St, mem.currentBundleId)
    /\ \E id \in BundleIds \ {mem.currentBundleId} :
         LET r == set(St, id, TRUE, TRUE, TRUE, TRUE, TRUE)
         IN  /\ id \in files
             /\ r.err = "none"
             /\ r.st.mem.currentBundleId = id
             /\ ~hasBundle(r.st, mem.currentBundleId)

\* A bundle is queued that differs from the current one.
NextQueued == mem.nextBundleId # NoBundle /\ mem.nextBundleId # mem.currentBundleId

\* The manifests applyPendingUpdate() can meet: the one in memory, and the
\* same with a bundle queued that the manifest does not know (left by a
\* deleteBundle that ran while next() was suspended).
QueuedStates ==
    {St} \cup {setNextBundleId(St, id) :
                  id \in BundleIds \ (DOMAIN mem.bundles \cup {mem.currentBundleId})}

\* What applyPendingUpdate() does in st with a queued bundle it rejects;
\* strict: the save is taken to succeed.
DropsRejected(st, strict) ==
    (st.mem.nextBundleId # NoBundle /\ st.mem.nextBundleId # st.mem.currentBundleId) =>
        \A ioOk \in IoOutcomes, rmOk \in IoOutcomes, ioOk2 \in IoOutcomes :
          \A valid \in VerifyOutcomes(st.files, st.mem.nextBundleId) :
            LET r == applyPendingUpdate(st, valid, ioOk, config.autoDeletePrevious, rmOk, ioOk2)
                known == hasBundle(st, st.mem.nextBundleId)
                marked == IF known THEN setBundle(st, st.mem.nextBundleId, "error") ELSE st
            IN  (~known \/ ~valid) =>
                    /\ strict => r.err = "none"
                    /\ r.err = IoErr(ioOk)
                    /\ r.st.mem = setNextBundleId(marked, NoBundle).mem
                    /\ r.st.mem.currentBundleId = st.mem.currentBundleId
                    /\ r.st.mem.nextBundleId = NoBundle
                    /\ known => getBundle(r.st, st.mem.nextBundleId) = "error"
                    /\ r.st.files = st.files
                    /\ r.err = "none" =>
                           /\ ~r.applied
                           /\ r.bundleId = st.mem.currentBundleId
                           /\ r.st.disk = <<r.st.mem>>
                    /\ r.err = "io" => r.st.disk = st.disk

Rejections == {"notfound", "invalidstate", "integrity", "protected", "permission"}

\* The call r left the manifest in memory, the storage file and the bundle
\* directories as they were.
Untouched(r) == r.st.mem = mem /\ r.st.disk = disk /\ r.st.files = files

\* C27: when next, set, deleteBundle or setBundleError fails with an
\* unknown-id, wrong-status, integrity, protected-bundle or permission error,
\* the manifest in memory and the persisted manifest are as before the call
\* and no bundle files are removed.
C27_RejectionChangesNothing ==
    \A id \in AnyId, allow \in BOOLEAN :
      \A ioOk \in IoOutcomes, rmOk \in IoOutcomes, ioOk2 \in IoOutcomes :
        \A valid \in VerifyOutcomes(files, id) :
          LET n == next(St, id, valid, ioOk)
              s == set(St, id, valid, ioOk, config.autoDeletePrevious, rmOk, ioOk2)
              d == deleteBundle(St, id, rmOk, ioOk)
              e == setBundleError(St, id, allow, config.autoDeleteFailed, rmOk, ioOk2, ioOk)
          IN  /\ n.err \in Rejections => Untouched(n)
              /\ s.err \in Rejections => Untouched(s)
              /\ d.err \in Rejections => Untouched(d)
              /\ e.err \in Rejections => Untouched(e)

\* A downloaded bundle is current and saved, a second one is not ready:
\* every kind of rejection can happen.
C27_Witness ==
    /\ mem.currentBundleId \in BundleIds
    /\ disk = <<mem>>
    /\ mem.currentBundleId \in files
    /\ deleteBundle(St, mem.currentBundleId, TRUE, TRUE).err = "protected"
    /\ next(St, mem.currentBundleId, FALSE, TRUE).err = "integrity"
    /\ set(St, mem.currentBundleId, FALSE, TRUE, config.autoDeletePrevious, TRUE, TRUE).err
           = "integrity"
    /\ setBundleError(St, mem.currentBundleId, FALSE, config.autoDeleteFailed, TRUE, TRUE, TRUE).err
           = "permission"
    /\ \E id \in BundleIds : next(St, id, TRUE, TRUE).err = "invalidstate"
    /\ next(St, BUILTIN_BUNDLE_ID, TRUE, TRUE).err = "notfound"

\* C28: with auto-delete-failed enabled, once rollback() has completed with
\* no file deletion failing, the bundle that was current is no longer in the
\* bundle map and its files are removed.
C28_RollbackDeletesFailed ==
    (config.autoDeleteFailed /\ hasBundle(St, mem.currentBundleId)) =>
        \A ioOk1 \in IoOutcomes, ioOk2 \in IoOutcomes, ioOk \in IoOutcomes :
            LET r == rollback(St, TRUE, ioOk1, TRUE, ioOk2, ioOk)
            IN  r.err = "none" =>
                    /\ ~hasBundle(r.st, mem.currentBundleId)
                    /\ ~bundleExists(r.st, mem.currentBundleId)

\* C29: in every reachable state lastSuccessfulBundleId is unset, the
\* builtin id, or the id of a bundle that is in the manifest with status
\* success.
C29_RollbackTargetAvailable ==
    \/ mem.lastSuccessfulBundleId \in {NoBundle, BUILTIN_BUNDLE_ID}
    \/ getBundle(St, mem.lastSuccessfulBundleId) = "success"

\* No call is in flight.
AllReturned == \A c \in DOMAIN calls : calls[c].pc = "idle"

\* C30: whatever the interleaving of next(b) or set(b) with deleteBundle(b),
\* once the calls have returned neither nextBundleId nor currentBundleId
\* names a bundle that is absent from the bundle map or whose files are
\* deleted.
C30_NoDanglingAfterInterleaving ==
    AllReturned =>
        \A b \in {mem.currentBundleId, mem.nextBundleId} \cap BundleIds :
            hasBundle(St, b) /\ bundleExists(St, b)

\* The bundle the persisted manifest names as current has status error there.
PersistedCurrentIsError(d) ==
    LET m == loadStorage(d)
    IN  m.currentBundleId \in DOMAIN m.bundles /\ m.bundles[m.currentBundleId] = "error"

\* C31: when the process ends inside rollback() of a bundle that was not
\* marked error before, the manifest the next process loads does not have a
\* current bundle with status error.
C31_RollbackCrashSafe ==
    [][(CrashInRollback /\ ~PersistedCurrentIsError(disk) /\ getBundle(St, mem.currentBundleId) # "error")
          => ~PersistedCurrentIsError(disk')]_vars

\* The watchdog's timer is cancelled in this step of the running process: it
\* was outstanding, and it goes away, or is replaced by a new one, without
\* firing.
TimerCancelled ==
    /\ wd.timer
    /\ phase' = "running"
    /\ wd'.rollbacks = wd.rollbacks
    /\ ~wd'.timer \/ (wd' # wd /\ wd'.state = "armed" /\ wd'.since = 0)

MissingOnDisk == {b \in DOMAIN mem.bundles : ~bundleExists(St, b)}

\* C33: list() only reads: with raw unset, a stored bundle whose directory
\* is missing is left out of the result, its manifest entry stays and
\* list(raw) returns it; the builtin bundle is in every result.
C33_ListReadsOnly ==
    /\ \A raw \in BOOLEAN : BUILTIN_BUNDLE_ID \in list(St, raw)
    /\ list(St, TRUE) = {BUILTIN_BUNDLE_ID} \cup DOMAIN mem.bundles
    /\ list(St, FALSE) = list(St, TRUE) \ MissingOnDisk
    /\ \A b \in MissingOnDisk :
           /\ b \notin list(St, FALSE)
           /\ b \in list(St, TRUE)
           /\ hasBundle(St, b)

\* A stored bundle has no directory, next to one that has.
C33_Witness ==
    /\ MissingOnDisk # {}
    /\ list(St, FALSE) # {BUILTIN_BUNDLE_ID}
    /\ list(St, FALSE) # list(St, TRUE)

\* The outcomes of cleanup() in the current state, within the fault budget.
CleanupResults ==
    {r \in {cleanup(St, config.autoDeleteFailed, rmOk, ioOk, readdirOk).st :
                rmOk \in SUBSET files, readdirOk \in IoOutcomes,
                ioOk \in SUBSET {b \in DOMAIN mem.bundles : mem.bundles[b] = "error"}} :
        r.faults <= MaxFaults}

InUse == {mem.currentBundleId, mem.nextBundleId}

\* cleanup leaves no error bundle in the manifest but the current and next.
CleanupRemovesErrors(r) ==
    config.autoDeleteFailed =>
        \A b \in DOMAIN r.mem.bundles : r.mem.bundles[b] = "error" => b \in InUse

\* cleanup keeps the entry and the files of the current and next bundles.
CleanupKeepsInUse(r) ==
    \A b \in InUse :
        /\ hasBundle(St, b) => hasBundle(r, b) /\ r.mem.bundles[b] = mem.bundles[b]
        /\ b \in files => b \in r.files

\* A directory cleanup removes belongs to no manifest entry afterwards.
CleanupRemovesOnlyUnlisted(r) == \A f \in files \ r.files : ~hasBundle(r, f)

\* C34: after cleanup() with auto-delete-failed the only error bundles left
\* are the current and next ones; cleanup never removes the entry or the
\* files of the current or next bundle; every directory removed as an
\* orphan has no manifest entry.
C34_CleanupSparesInUse ==
    \A r \in CleanupResults :
        /\ CleanupRemovesErrors(r)
        /\ CleanupKeepsInUse(r)
        /\ CleanupRemovesOnlyUnlisted(r)

\* The states the manager's operations can leave when called in the current
\* state, within the fault budget.
OperationResults ==
    LET io == IoOutcomes
        adp == config.autoDeletePrevious
        adf == config.autoDeleteFailed
        all ==
            UNION {{next(St, id, valid, ioOk).st : valid \in VerifyOutcomes(files, id), ioOk \in io}
                       : id \in AnyId}
            \cup UNION {{set(St, id, valid, ioOk, adp, rmOk, ioOk2).st :
                            valid \in VerifyOutcomes(files, id), ioOk \in io, rmOk \in io, ioOk2 \in io}
                       : id \in AnyId}
            \cup {deleteBundle(St, id, rmOk, ioOk).st : id \in AnyId, rmOk \in io, ioOk \in io}
            \cup {setBundleError(St, id, allow, adf, rmOk, ioOk1, ioOk).st :
                      id \in AnyId, allow \in BOOLEAN, rmOk \in io, ioOk1 \in io, ioOk \in io}
            \cup {getFailedUpdate(St).st}
            \cup {reset(St, toLastSuccessful, ioOk).st : toLastSuccessful \in BOOLEAN, ioOk \in io}
            \cup {applyPendingUpdate(St, valid, ioOk, adp, rmOk, ioOk2).st :
                      valid \in VerifyOutcomes(files, mem.nextBundleId),
                      ioOk \in io, rmOk \in io, ioOk2 \in io}
            \cup {markBundleSuccessful(St, ioOk).st : ioOk \in io}
            \cup {rollback(St, adf, ioOk1, rmOk, ioOk2, ioOk).st :
                      ioOk1 \in io, rmOk \in io, ioOk2 \in io, ioOk \in io}
            \cup CleanupResults
    IN  {r \in all : r.faults <= MaxFaults}

\* The status changes an operation makes to the bundles it keeps.
StatusChanges(r) ==
    {<<mem.bundles[b], r.mem.bundles[b]>> :
        b \in {x \in DOMAIN mem.bundles \cap DOMAIN r.mem.bundles :
                   r.mem.bundles[x] # mem.bundles[x]}}

\* C35 as stated: once a bundle's status is success or error, no operation
\* changes it to a different status.
C35_SuccessAndErrorTerminal ==
    \A r \in OperationResults :
        \A c \in StatusChanges(r) : c[1] \notin {"success", "error"}

\* C35 amended: error is terminal (an error bundle can only be deleted),
\* and the only status change an operation of the manager makes is to
\* error, from pending, downloading or success.
C35_ErrorTerminal ==
    \A r \in OperationResults :
        StatusChanges(r) \subseteq
            {<<"pending", "error">>, <<"downloading", "error">>, <<"success", "error">>}

\* An operation turns a success bundle into an error one while another
\* bundle is already in error.
C35_Witness ==
    /\ \E r \in OperationResults : <<"success", "error">> \in StatusChanges(r)
    /\ \E b \in DOMAIN mem.bundles : mem.bundles[b] = "error"

\* The number of colons of a string.
RECURSIVE Colons(_)
Colons(chars) ==
    IF chars = <<>> THEN 0
    ELSE (IF Head(chars) = ":" THEN 1 ELSE 0) + Colons(Tail(chars))

\* The key cannot be parsed: no public key, or not exactly two fields.
Unparsable(sessionKey) ==
    \/ crypto.publicKey \in {"null", "empty"}
    \/ ~sessionKey.defined
    \/ Colons(sessionKey.chars) # 1

\* C36: session-key parsing reports failure as a value and never throws:
\* without a public key, or with a session key that is not exactly two
\* colon-separated fields, parseSessionKey returns null, decryptFile returns
\* false and decryptChecksum returns null, and the file is not modified.
C36_ParseFailureIsAValue ==
    \A sessionKey \in SessionKeys, rsaOk \in BOOLEAN, aesOk \in BOOLEAN :
        LET parsed == parseSessionKey(crypto, sessionKey, rsaOk)
            sum == decryptChecksum(crypto, "cipher", sessionKey, rsaOk, aesOk)
        IN  /\ parsed.kind \in {"null", "key"}
            /\ sum.result.value \in {"null", "plain"}
            /\ sum.file = crypto.file
            /\ \A readOk \in BOOLEAN, writeOk \in BOOLEAN :
                   LET f == decryptFile(crypto, sessionKey, rsaOk, readOk, aesOk, writeOk)
                   IN  /\ f.result.value \in {"true", "false"}
                       /\ Unparsable(sessionKey) =>
                              f.result.value = "false" /\ f.file = crypto.file
            /\ Unparsable(sessionKey) => parsed = NoKey /\ sum.result.value = "null"
            /\ parsed.kind = "key" =>
                   sessionKey.chars = parsed.iv \o <<":">> \o parsed.aesKey

\* decryptFile was refused for a key with three fields while a public key
\* is configured and the file is an encrypted one.
C36_Witness ==
    /\ crypto.publicKey = "pem"
    /\ crypto.file = "cipher"
    /\ crypto.result.op = "decryptFile"
    /\ crypto.result.value = "false"
    /\ Colons(crypto.result.sessionKey.chars) = 2

\* The custom id the storage file holds, if it is a document.
PersistedCustomId ==
    IF store.file.kind = "doc" THEN store.file.manifest[1].customId ELSE NoCustomId

\* C37: with persistCustomId disabled a custom id is kept in memory only: no
\* save ever writes it to the storage file, so a new process finds none.
C37_CustomIdStaysInMemory ==
    ~config.persistCustomId => PersistedCustomId = NoCustomId

\* C38: setChannel never throws, and when it returns status error the
\* stored channel is what it was before the call; the stored channel changes
\* only under a response with status ok or success.
C38_ErrorLeavesChannel ==
    \A channel \in Channels, response \in Responses, ioOk \in IoOutcomes :
        LET r == setChannel(store, channel, response, ioOk)
        IN  /\ r.status \in {"ok", "success", "error", "denied"}
            /\ getChannel(r.sto.data) # getChannel(store.data) =>
                   response \in {"absent", "ok", "success"}
            /\ r.status = "error" => getChannel(r.sto.data) = getChannel(store.data)

\* The callbacks registered for an event.
RegisteredFor(event) == {r[2] : r \in {x \in emitter.registered : x[1] = event}}

\* The callbacks an emit invoked, in order.
Invoked(em) == em.last.calls

\* C39: emit never throws and invokes every listener registered for the
\* event exactly once with the data, whether or not an earlier one throws;
\* a listener removed through its handle, or whose event was cleared by
\* removeListeners or removeAllListeners, is not invoked by later emits, and
\* removeListeners leaves the listeners of other events alone.
C39_EmitReachesEveryListener ==
    \A event \in Events, data \in Payloads :
        LET r == emit(emitter, event, data)
        IN  /\ ~r.last.threw
            /\ r.last.data = data
            /\ Members(Invoked(r)) = RegisteredFor(event)
            /\ Len(Invoked(r)) = Cardinality(RegisteredFor(event))
            /\ \A callback \in Callbacks :
                   callback \notin Members(Invoked(emit(handleRemove(emitter, event, callback),
                                                        event, data)))
            /\ Invoked(emit(removeListeners(emitter, event), event, data)) = <<>>
            /\ Invoked(emit(removeAllListeners(emitter), event, data)) = <<>>
            /\ \A other \in Events \ {event} :
                   Invoked(emit(removeListeners(emitter, other), event, data)) = Invoked(r)

\* The last emit reached a listener registered after one that throws, while
\* the other event has a listener too.
C39_Witness ==
    /\ emitter.last.event = "download"
    /\ \E i, j \in DOMAIN emitter.last.calls :
           i < j /\ Behaviour(emitter.last.calls[i]) = "throws"
    /\ RegisteredFor("updateAvailable") # {}
    /\ ~emitter.last.threw

====
